---- MODULE Spec2Model ----
(***************************************************************************)
(* Runner scaling controller of terraform-aws-github-runner.               *)
(*                                                                         *)
(* Scale-up intake and dispatcher: scaleUpHandler (lambda.ts) sorts the    *)
(* queue batch by retry counter and hands it to scaleUp (scale-up.ts),     *)
(* which groups the messages by owning scope, filters them on the upstream *)
(* job status, caps the scope on RUNNERS_MAXIMUM_COUNT, issues one bulk    *)
(* create per scope (createRunner, aws/runners.ts) and writes one          *)
(* registration secret per created instance.                               *)
(*                                                                         *)
(* An invocation is split at the two awaits that touch the shared instance *)
(* inventory: the listing (listEC2Runners) and the bulk create.            *)
(*                                                                         *)
(* Sources: scale-up.ts is src/lambdas/functions/control-plane/src/        *)
(* scale-runners/scale-up.ts, lambda.ts is src/unnamed/part_007,           *)
(* ScaleError.ts is src/unnamed/part_008 and aws/runners.ts is             *)
(* src/unnamed/part_002.                                                   *)
(***************************************************************************)
EXTENDS Integers, Sequences, FiniteSets, TLC

\* ------------------------------------------------------------------ bounds
MaxBatch == 3
MaxPre == 2
MaxInvocations == 3
MaxDown == 2
MaxEvict == 4
MaxPool == 2
MaxAttempts == 3
MaxLoop == 1
MaxRecords == 3
MaxCycle == 2

\* ------------------------------------------------------- program constants
\* RUNNERS_MAXIMUM_COUNT = -1 disables the cap (scale-up.ts:369, 378)
Unlimited == -1
\* a message without retryCounter (scale-up.ts:31, "retryCounter?: number")
NoCounter == -1

\* an instance without the ghr:github_runner_id tag
\* (scale-down.ts:241, parseInt(runner.runnerId || '0'))
NoRunnerId == 0
\* no scope
NoKey == <<>>
\* a retry configuration without maxAttempts (job-retry.test.ts:76-79)
NoMaxAttempts == -1
\* the longest delay the queue takes, in seconds (job-retry.test.ts:70-73)
MaxQueueDelay == 900

Procs == {1, 2}

Min(a, b) == IF a < b THEN a ELSE b
Max(a, b) == IF a > b THEN a ELSE b

\* ------------------------------------------------------------ input domain
\* The kinds of queue record a batch is drawn from.  jobStatus is not part
\* of the payload: it is the status the upstream service reports for the
\* job (getJobForWorkflowRun) during the invocation.
MessageKinds ==
  { [eventSource |-> "aws:sqs", eventType |-> "workflow_job", repositoryOwner |-> "A",
     repositoryName |-> "r", repoOwnerType |-> "Organization", retryCounter |-> NoCounter,
     jobStatus |-> "queued"],
    [eventSource |-> "aws:sqs", eventType |-> "workflow_job", repositoryOwner |-> "A",
     repositoryName |-> "r", repoOwnerType |-> "Organization", retryCounter |-> 1,
     jobStatus |-> "queued"],
    [eventSource |-> "aws:sqs", eventType |-> "workflow_job", repositoryOwner |-> "A",
     repositoryName |-> "r", repoOwnerType |-> "Organization", retryCounter |-> 0,
     jobStatus |-> "completed"],
    [eventSource |-> "aws:sqs", eventType |-> "workflow_job", repositoryOwner |-> "B",
     repositoryName |-> "r", repoOwnerType |-> "Organization", retryCounter |-> 0,
     jobStatus |-> "queued"],
    [eventSource |-> "aws:sqs", eventType |-> "check_run", repositoryOwner |-> "A",
     repositoryName |-> "r", repoOwnerType |-> "Organization", retryCounter |-> NoCounter,
     jobStatus |-> "queued"],
    [eventSource |-> "aws:sqs", eventType |-> "workflow_job", repositoryOwner |-> "U",
     repositoryName |-> "r", repoOwnerType |-> "User", retryCounter |-> 1,
     jobStatus |-> "queued"],
    [eventSource |-> "aws:sns", eventType |-> "workflow_job", repositoryOwner |-> "A",
     repositoryName |-> "r", repoOwnerType |-> "Organization", retryCounter |-> 0,
     jobStatus |-> "queued"] }

\* The kinds used when several invocations run concurrently.
ConcKinds ==
  { k \in MessageKinds : /\ k.eventSource = "aws:sqs"
                         /\ k.eventType = "workflow_job"
                         /\ k.repositoryOwner = "A"
                         /\ k.jobStatus = "queued"
                         /\ k.retryCounter = NoCounter }

\* A delivered record: the kind plus the queue-delivery identifier
\* (messageId, the position in the delivery) and the upstream job id.
Record(kind, pos) ==
  [messageId |-> pos, id |-> 100 + pos, eventSource |-> kind.eventSource,
   eventType |-> kind.eventType, repositoryOwner |-> kind.repositoryOwner,
   repositoryName |-> kind.repositoryName, repoOwnerType |-> kind.repoOwnerType,
   retryCounter |-> kind.retryCounter, jobStatus |-> kind.jobStatus]

EventsOver(kinds, maxLen) ==
  UNION { { [p \in 1..n |-> Record(f[p], p)] : f \in [1..n -> kinds] } : n \in 1..maxLen }

Events == EventsOver(MessageKinds, MaxBatch)
ConcEvents == EventsOver(ConcKinds, Min(MaxBatch, 2))

\* jit is ENABLE_JIT_CONFIG; the configurations of Configs store
\* registration tokens, those of CreateConfigs also JIT configurations.
Configs ==
  [orgLevel : BOOLEAN, ephemeral : BOOLEAN, queuedCheck : BOOLEAN,
   maxRunners : {Unlimited, 1, 2}, jit : {FALSE}]

CreateConfigs ==
  [orgLevel : {TRUE}, ephemeral : BOOLEAN, queuedCheck : BOOLEAN,
   maxRunners : {Unlimited}, jit : BOOLEAN]

\* The kinds of the batches whose bulk-create is followed in detail.
CreateKinds ==
  { k \in MessageKinds : /\ k.eventSource = "aws:sqs"
                         /\ k.eventType = "workflow_job"
                         /\ k.repoOwnerType = "Organization"
                         /\ k.jobStatus = "queued"
                         /\ k.retryCounter \in {NoCounter, 0} }

CreateEvents == EventsOver(CreateKinds, Min(MaxBatch, 2))

\* ------------------------------------------------------------ environment
\* aws/runners.ts:214-223  the error codes createRunner takes as retriable
ScaleErrors ==
  { "UnfulfillableCapacity", "MaxSpotInstanceCountExceeded",
    "TargetCapacityLimitExceededException", "RequestLimitExceeded",
    "ResourceLimitExceeded", "MaxSpotFleetRequestCountExceeded",
    "InsufficientInstanceCapacity" }

\* aws/runners.ts:210  the error codes a create-fleet response is drawn
\* from: a retriable one, another one, and the '' of an error without code
ErrorCodes == { "UnfulfillableCapacity", "NonMappedError", "" }

\* What the cloud and the upstream service may answer during an invocation:
\* whether an upstream call may throw, whether the tag call may fail, the
\* error codes of a create-fleet response without (failErrors) and with
\* (partErrors) instances.
Reliable ==
  [upstreamFails |-> {FALSE}, tagFails |-> {FALSE},
   failErrors |-> {{"UnfulfillableCapacity"}, {"NonMappedError"}}, partErrors |-> {{}}]

Faulty ==
  [upstreamFails |-> BOOLEAN, tagFails |-> BOOLEAN,
   failErrors |-> SUBSET ErrorCodes, partErrors |-> SUBSET ErrorCodes]

ConcConfigs ==
  { c \in Configs : c.orgLevel /\ c.ephemeral /\ ~c.queuedCheck /\ c.maxRunners = 1 }

\* --------------------------------------------------------- scaleUpHandler
\* lambda.ts:20-32  records of another event source are ignored
ParseRecords(records) == SelectSeq(records, LAMBDA r : r.eventSource = "aws:sqs")

\* the comparator reading the raw counter, without the default of 0
RetryOf_Raw(m) == m.retryCounter

\* lambda.ts:38  (l.retryCounter ?? 0)
RetryOf(m) == IF m.retryCounter = NoCounter THEN 0 ELSE m.retryCounter

\* Position at which a stable sort places m in an already sorted sequence:
\* behind every element that does not compare greater.
RECURSIVE InsertSorted(_, _)
InsertSorted(sorted, m) ==
  IF sorted = <<>> THEN <<m>>
  ELSE IF RetryOf(Head(sorted)) - RetryOf(m) <= 0
       THEN <<Head(sorted)>> \o InsertSorted(Tail(sorted), m)
       ELSE <<m>> \o sorted

\* lambda.ts:37-39  Array.prototype.sort with the retry-counter comparator
\* (the sort is stable).
RECURSIVE SortByRetryFrom(_, _)
SortByRetryFrom(msgs, acc) ==
  IF msgs = <<>> THEN acc
  ELSE SortByRetryFrom(Tail(msgs), InsertSorted(acc, Head(msgs)))

\* the batch handed on in delivery order
SortByRetry_DeliveryOrder(msgs) ==
  msgs

SortByRetry(msgs) ==
  SortByRetryFrom(msgs, <<>>)

\* ----------------------------------------------------------------- scaleUp
\* the owner-kind comparison inverted
IsValidRepoOwnerType_Inverted(payload, enableOrgLevel) ==
  ~(enableOrgLevel /\ payload.repoOwnerType = "Organization")

\* scale-up.ts:487-489
IsValidRepoOwnerTypeIfOrgLevelEnabled(payload, enableOrgLevel) ==
  ~(enableOrgLevel /\ payload.repoOwnerType # "Organization")

\* scale-up.ts:303  the scope key: owner, or owner/repo
ScopeKey(payload, enableOrgLevel) ==
  IF enableOrgLevel THEN <<payload.repositoryOwner>>
  ELSE <<payload.repositoryOwner, payload.repositoryName>>

\* scale-up.ts:325
RunnerType(enableOrgLevel) == IF enableOrgLevel THEN "Org" ELSE "Repo"

\* the event-kind check applied in non-ephemeral mode instead
IsRejectedEvent_NonEphemeral(payload, ephemeralEnabled) ==
  ~ephemeralEnabled /\ payload.eventType # "workflow_job"

\* scale-up.ts:280  the event-kind check of the validation pass
IsRejectedEvent(payload, ephemeralEnabled) ==
  ephemeralEnabled /\ payload.eventType # "workflow_job"

GroupIndex(groups, key) ==
  IF \E g \in 1..Len(groups) : groups[g].key = key
  THEN CHOOSE g \in 1..Len(groups) : groups[g].key = key
  ELSE 0

\* scale-up.ts:305-322  validMessages.get(key) / set(key, entry) / push
AddToGroup(groups, key, payload) ==
  IF GroupIndex(groups, key) = 0
  THEN Append(groups, [key |-> key, messages |-> <<payload>>])
  ELSE [groups EXCEPT ![GroupIndex(groups, key)].messages = Append(@, payload)]

\* scale-up.ts:276-323  the validation pass over the sorted batch.  failKey
\* is the scope whose client construction (scale-up.ts:309-320) throws, NoKey
\* when none does; the throw leaves the pass before the scope gets its group.
RECURSIVE ValidationPass(_, _, _, _, _)
ValidationPass(payloads, cfg, groups, invalid, failKey) ==
  IF payloads = <<>> THEN [groups |-> groups, invalid |-> invalid, threw |-> FALSE]
  ELSE LET payload == Head(payloads)
           key == ScopeKey(payload, cfg.orgLevel)
       IN
       IF IsRejectedEvent(payload, cfg.ephemeral)
       THEN ValidationPass(Tail(payloads), cfg, groups, Append(invalid, payload.messageId),
                           failKey)
       ELSE IF ~IsValidRepoOwnerTypeIfOrgLevelEnabled(payload, cfg.orgLevel)
       THEN ValidationPass(Tail(payloads), cfg, groups, invalid, failKey)
       ELSE IF GroupIndex(groups, key) = 0 /\ key = failKey
       THEN [groups |-> groups, invalid |-> invalid, threw |-> TRUE]
       ELSE ValidationPass(Tail(payloads), cfg, AddToGroup(groups, key, payload), invalid,
                           failKey)

\* scale-up.ts:141-156  isJobQueued: the upstream status of a workflow job;
\* any other event type throws
IsJobQueuedThrows(payload) == payload.eventType # "workflow_job"
IsJobQueued(payload) == payload.jobStatus = "queued"

\* scale-up.ts:352  the message counts toward scaleUp
Survives(message, enableJobQueuedCheck) ==
  ~(enableJobQueuedCheck /\ ~IsJobQueued(message))

\* scale-up.ts:340-359  the number of messages of the group that count
ScaleUpCount(messages, enableJobQueuedCheck) ==
  Len(SelectSeq(messages, LAMBDA m : Survives(m, enableJobQueuedCheck)))

\* scale-up.ts:352  the queued check throws on the first unsupported event
QueuedFilterThrows(messages, enableJobQueuedCheck) ==
  enableJobQueuedCheck /\ \E p \in 1..Len(messages) : IsJobQueuedThrows(messages[p])

\* scale-up.ts:141-149  the queued check fetches the job of the group's
\* first message from the upstream service (getJobForWorkflowRun)
JobFetched(messages, enableJobQueuedCheck) ==
  enableJobQueuedCheck /\ messages # <<>> /\ ~IsJobQueuedThrows(messages[1])

\* the cap left out: scale up by the number of jobs
NewRunners_Uncapped(scaleUp, maximumRunners, currentRunners) == scaleUp

\* the unlimited setting left out: -1 is used as a budget
NewRunners_AlwaysCapped(scaleUp, maximumRunners, currentRunners) ==
  Min(scaleUp, maximumRunners - currentRunners)

\* scale-up.ts:377-382
NewRunners(scaleUp, maximumRunners, currentRunners) ==
  IF maximumRunners = Unlimited THEN scaleUp
  ELSE Min(scaleUp, maximumRunners - currentRunners)

\* scale-up.ts:384
MissingInstanceCount(scaleUp, newRunners) == Max(0, scaleUp - newRunners)

\* Array.prototype.slice(0, n) for n >= 0
SliceFront(s, n) == SubSeq(s, 1, Min(n, Len(s)))
\* what Array.prototype.splice(0, n) leaves in the array, n >= 0
SpliceRest(s, n) == SubSeq(s, Min(n, Len(s)) + 1, Len(s))

\* the job id reported in place of the queue-delivery identifier
MessageIds_JobId(s) == [p \in 1..Len(s) |-> s[p].id]

\* the queue-delivery identifiers of a list of messages (map(({ messageId }) => messageId))
MessageIds(s) == [p \in 1..Len(s) |-> s[p].messageId]

\* the cap rejecting in non-ephemeral mode as well
CapRejected_AnyMode(messages, missingInstanceCount, ephemeralEnabled) ==
  SliceFront(messages, missingInstanceCount)

\* scale-up.ts:391-395  the messages the cap takes off the front of the group
CapRejected(messages, missingInstanceCount, ephemeralEnabled) ==
  IF ephemeralEnabled THEN SliceFront(messages, missingInstanceCount) ELSE <<>>

\* a shortfall rejecting a single message whatever its size
ShortfallRejected_OnlyOne(messages, newRunners, got) ==
  IF got # newRunners THEN SliceFront(messages, 1) ELSE <<>>

\* scale-up.ts:441-451  the messages rejected for a creation shortfall
ShortfallRejected(messages, newRunners, got) ==
  IF got # newRunners THEN SliceFront(messages, newRunners - got) ELSE <<>>

\* ------------------------------------------------------------- ScaleError
\* aws/runners.ts:228  the argument createRunner gives the ScaleError
\* constructor is the message text, so failedInstanceCount is not a number.
\* A failedInstanceCount is a record: isNumber tells a number from any other
\* value, value is the number.
\* (the error built with a count of 1)
CreateRunnerScaleErrorCount_One ==
  [isNumber |-> TRUE, value |-> 1]

\* aws/runners.ts:228  new ScaleError('<message text>')
CreateRunnerScaleErrorCount ==
  [isNumber |-> FALSE, value |-> 0]

\* ScaleError.ts:5  new ScaleError(n): the count the error carries
ScaleErrorOf(n) == [isNumber |-> TRUE, value |-> n]

\* the counts of the ScaleErrors handed to scaleUpHandler
FailedCounts == (0 - MaxBatch - 1)..(MaxBatch + 1)

\* the clamp at 0 left out: slice(0, n) with n < 0 drops the last -n messages
ToBatchItemFailures_NoClamp(messages, failedInstanceCount) ==
  IF ~failedInstanceCount.isNumber THEN <<>>
  ELSE IF failedInstanceCount.value < 0
  THEN MessageIds(SubSeq(messages, 1, Len(messages) + failedInstanceCount.value))
  ELSE MessageIds(SliceFront(messages, Min(failedInstanceCount.value, Len(messages))))

\* ScaleError.ts:20-26  Math.max(0, Math.min(count, length)) is NaN for a
\* count that is not a number, and slice(0, NaN) is empty.
ToBatchItemFailures(messages, failedInstanceCount) ==
  IF ~failedInstanceCount.isNumber THEN <<>>
  ELSE MessageIds(SliceFront(messages, Max(0, Min(failedInstanceCount.value, Len(messages)))))

\* ------------------------------------------------------------ aws/runners
\* aws/runners.ts:160
NumberOfRunners(n) == IF n # 0 THEN n ELSE 1

\* aws/runners.ts:192
CreatedByTag(numberOfRunners) ==
  IF numberOfRunners = 1 THEN "scale-up-lambda" ELSE "pool-lambda"

\* the owner tag carrying the runner type
TagSpecification_OwnerIsType(runnerType, runnerOwner, numberOfRunners) ==
  [t \in {"ghr:Application", "ghr:created_by", "Type", "Owner"} |->
     CASE t = "ghr:Application" -> "github-action-runner"
       [] t = "ghr:created_by" -> CreatedByTag(numberOfRunners)
       [] t = "Type" -> runnerType
       [] t = "Owner" -> <<runnerType>>]

\* aws/runners.ts:187-197  the tag specification of the create-fleet call
TagSpecification(runnerType, runnerOwner, numberOfRunners) ==
  [t \in {"ghr:Application", "ghr:created_by", "Type", "Owner"} |->
     CASE t = "ghr:Application" -> "github-action-runner"
       [] t = "ghr:created_by" -> CreatedByTag(numberOfRunners)
       [] t = "Type" -> runnerType
       [] t = "Owner" -> runnerOwner]

\* an instance the create-fleet call returns, with the tags listEC2Runners
\* reads back (aws/runners.ts:73-92); it carries no runner id and no orphan
\* tag yet, instances are launched in the order of their identifiers and
\* start in the instance state pending
FleetInstance(instanceId, runnerType, runnerOwner, numberOfRunners) ==
  LET tags == TagSpecification(runnerType, runnerOwner, numberOfRunners)
  IN [id |-> instanceId, type |-> tags["Type"], owner |-> tags["Owner"],
      createdBy |-> tags["ghr:created_by"], runnerId |-> NoRunnerId, orphan |-> FALSE,
      launchTime |-> instanceId, state |-> "pending"]

\* every failed create-fleet response taken as retriable
CreateRunnerResult_AllRetriable(instanceCount, errors) ==
  IF instanceCount = 0 THEN "ScaleError" ELSE "ok"

\* aws/runners.ts:206-233  what createRunner makes of the create-fleet
\* response: the number of instances and the error codes
CreateRunnerResult(instanceCount, errors) ==
  IF instanceCount = 0
  THEN IF errors \cap ScaleErrors # {} THEN "ScaleError" ELSE "Error"
  ELSE "ok"

\* ------------------------------------------------------------------ state
VARIABLES
  config,      \* the environment configuration of the deployment
  instances,   \* the live managed instances (running or pending) with their tags
  nextId,      \* the next instance identifier the cloud hands out
  secrets,     \* the instance ids whose registration secret has been written
  started,     \* the number of scale-up invocations started
  run,         \* per invocation: the local state of scaleUpHandler / scaleUp
  ghRunners,   \* the runners registered with the upstream service
  down,        \* the local state of the scale-down invocation
  pool,        \* the local state of the pool invocation
  retry        \* the queues of the retry layer and what was published to them

vars == <<config, instances, nextId, secrets, started, run, ghRunners, down, pool, retry>>

\* aws/runners.ts:24-55  listEC2Runners with the type and owner filters
ListEC2Runners(runnerType, runnerOwner) ==
  { x \in instances : x.type = runnerType /\ x.owner = runnerOwner }

IdleRun ==
  [pc |-> "idle", records |-> <<>>, sqsMessages |-> <<>>, groups |-> <<>>, gi |-> 1,
   invalidMessages |-> <<>>, clients |-> <<>>, scaleUp |-> 0, currentRunners |-> 0,
   newRunners |-> 0, listCalls |-> <<>>, fleetCalls |-> <<>>, capLog |-> <<>>,
   shortLog |-> <<>>, ops |-> <<>>, outcome |-> "none",
   failure |-> [call |-> "none", key |-> NoKey], thrown |-> CreateRunnerScaleErrorCount,
   batchItemFailures |-> <<>>]

\* scale-down.ts:308-332  the locals of scaleDown before it starts: the
\* orphan listing and the position in it, the runners of Phase 2 in
\* evaluation order and the position in them, the idle quota left, the
\* cached upstream listing, and the calls made; marked keeps, across
\* invocations, the instances Phase 2 has tagged orphan
IdleDown ==
  [pc |-> "idle", now |-> 0, orphanRunners |-> <<>>, oi |-> 1, ec2Runners |-> <<>>,
   runners |-> <<>>, ri |-> 1, idleCounter |-> 0, cached |-> {}, cache |-> {},
   log |-> <<>>, outcome |-> "none", returned |-> "none", marked |-> {}]

\* pool.ts:19-120  the locals of adjust before it starts: the pool size of
\* the event, the number of runners counted as in the pool, and the calls of
\* createRunners with their numberOfRunners
IdlePool ==
  [pc |-> "idle", now |-> 0, poolSize |-> 0, numberOfRunnersInPool |-> 0,
   calls |-> <<>>, outcome |-> "none", returned |-> "none"]

\* the last invocation of jobRetryCheck: its records, the answer of the
\* upstream job query for each, the publishMessage calls, how it returned
NoCheck ==
  [records |-> <<>>, answers |-> <<>>, calls |-> <<>>, returned |-> "none"]

\* the status of each job upstream, the queue of the retry check, the
\* scale-up queue as far as the retry layer fills it, the publishMessage
\* calls made and the last invocation of jobRetryCheck
IdleRetry ==
  [jobStatus |-> [id \in {1} |-> "queued"], retryQueue |-> {}, scaleUpQueue |-> {},
   published |-> <<>>, check |-> NoCheck]

PreInstances(cfg, n) ==
  { FleetInstance(p, RunnerType(cfg.orgLevel),
                  ScopeKey([repositoryOwner |-> "A", repositoryName |-> "r"], cfg.orgLevel), 1)
    : p \in 1..n }

\* One invocation over the whole input domain, on an inventory that already
\* holds up to MaxPre instances of scope A.
Init ==
  /\ config \in Configs
  /\ \E n \in 0..MaxPre :
       /\ instances = PreInstances(config, n)
       /\ nextId = n + 1
       /\ secrets = 1..n
  /\ started = 0
  /\ run = [i \in Procs |-> IdleRun]
  /\ ghRunners = {}
  /\ down = IdleDown
  /\ pool = IdlePool
  /\ retry = IdleRetry

\* Concurrent invocations on an empty inventory.
InitConc ==
  /\ config \in ConcConfigs
  /\ instances = {}
  /\ nextId = 1
  /\ secrets = {}
  /\ started = 0
  /\ run = [i \in Procs |-> IdleRun]
  /\ ghRunners = {}
  /\ down = IdleDown
  /\ pool = IdlePool
  /\ retry = IdleRetry

\* the catch block reporting the whole batch for an error of another class
HandlerCatch_RejectAll(r, isScaleError, failedInstanceCount) ==
  [r EXCEPT !.pc = "done",
            !.outcome = IF isScaleError THEN "ScaleError" ELSE "Error",
            !.thrown = failedInstanceCount,
            !.batchItemFailures =
               IF isScaleError THEN ToBatchItemFailures(r.sqsMessages, failedInstanceCount)
               ELSE MessageIds(r.sqsMessages)]

\* lambda.ts:53-64  the catch block of scaleUpHandler
HandlerCatch(r, isScaleError, failedInstanceCount) ==
  [r EXCEPT !.pc = "done",
            !.outcome = IF isScaleError THEN "ScaleError" ELSE "Error",
            !.thrown = failedInstanceCount,
            !.batchItemFailures =
               IF isScaleError THEN ToBatchItemFailures(r.sqsMessages, failedInstanceCount)
               ELSE <<>>]

\* an upstream call of scaleUp throws while scope key is processed: the
\* error is of another class than ScaleError and leaves scaleUp
UpstreamThrows(r, call, key) ==
  HandlerCatch([r EXCEPT !.failure = [call |-> call, key |-> key]],
               FALSE, CreateRunnerScaleErrorCount)

\* lambda.ts:13-44 and scale-up.ts:230-336: the handler parses and sorts the
\* batch, scaleUp runs its validation pass and creates one client per scope.
ScaleUpHandler(i, records, env) ==
  /\ run[i].pc \in {"idle", "done"}
  /\ LET sqsMessages == SortByRetry(ParseRecords(records))
         whole == ValidationPass(sqsMessages, config, <<>>, <<>>, NoKey)
         failKeys == IF TRUE \in env.upstreamFails
                     THEN { whole.groups[g].key : g \in 1..Len(whole.groups) }
                     ELSE {}
     IN \E failKey \in {NoKey} \cup failKeys :
          LET v == ValidationPass(sqsMessages, config, <<>>, <<>>, failKey)
              entered ==
                [IdleRun EXCEPT !.pc = "group", !.records = records,
                                !.sqsMessages = sqsMessages, !.groups = v.groups,
                                !.invalidMessages = v.invalid,
                                !.clients = [g \in 1..Len(v.groups) |-> v.groups[g].key]]
          IN run' = [run EXCEPT ![i] =
                       IF v.threw THEN UpstreamThrows(entered, "client", failKey)
                       ELSE entered]
  /\ started' = started + 1
  /\ UNCHANGED <<config, instances, nextId, secrets, ghRunners, down, pool, retry>>

\* scale-up.ts:338-401: the queued filter of the current group, the listing
\* of the scope's instances and the cap.
ScopeCount(i, env) ==
  /\ run[i].pc = "group"
  /\ run[i].gi <= Len(run[i].groups)
  /\ LET r == run[i]
         g == r.groups[r.gi]
         scaleUp == ScaleUpCount(g.messages, config.queuedCheck)
         currentRunners ==
           IF config.maxRunners = Unlimited THEN 0
           ELSE Cardinality(ListEC2Runners(RunnerType(config.orgLevel), g.key))
         newRunners == NewRunners(scaleUp, config.maxRunners, currentRunners)
         missingInstanceCount == MissingInstanceCount(scaleUp, newRunners)
         rejected == CapRejected(g.messages, missingInstanceCount, config.ephemeral)
         listed == IF config.maxRunners = Unlimited THEN r.listCalls
                   ELSE Append(r.listCalls, g.key)
     IN \E jobFetchThrows \in env.upstreamFails :
        run' = [run EXCEPT ![i] =
          IF jobFetchThrows /\ JobFetched(g.messages, config.queuedCheck)
          THEN UpstreamThrows(r, "job", g.key)
          ELSE IF QueuedFilterThrows(g.messages, config.queuedCheck)
          THEN HandlerCatch(r, FALSE, CreateRunnerScaleErrorCount)
          ELSE IF scaleUp = 0
          THEN [r EXCEPT !.gi = r.gi + 1]
          ELSE IF missingInstanceCount > 0
          THEN [r EXCEPT
                  !.scaleUp = scaleUp, !.currentRunners = currentRunners,
                  !.newRunners = newRunners, !.listCalls = listed,
                  !.groups[r.gi].messages =
                     IF config.ephemeral THEN SpliceRest(@, missingInstanceCount) ELSE @,
                  !.invalidMessages = @ \o MessageIds(rejected),
                  !.capLog = Append(@, [key |-> g.key, scaleUp |-> scaleUp,
                                        currentRunners |-> currentRunners,
                                        rejected |-> MessageIds(rejected)]),
                  !.gi = IF missingInstanceCount = scaleUp THEN r.gi + 1 ELSE r.gi,
                  !.pc = IF missingInstanceCount = scaleUp THEN "group" ELSE "create"]
          ELSE [r EXCEPT
                  !.scaleUp = scaleUp, !.currentRunners = currentRunners,
                  !.newRunners = newRunners, !.listCalls = listed, !.pc = "create"]]
  /\ UNCHANGED <<config, instances, nextId, secrets, started, ghRunners, down, pool, retry>>

\* what a createRunner call leaves on record: the request, its tag
\* specification and the create-fleet response
FleetCall(r, got, errors) ==
  [owner |-> r.groups[r.gi].key, numberOfRunners |-> r.newRunners, scaleUp |-> r.scaleUp,
   currentRunners |-> r.currentRunners, got |-> got, errors |-> errors,
   tags |-> TagSpecification(RunnerType(config.orgLevel), r.groups[r.gi].key,
                             NumberOfRunners(r.newRunners))]

\* scale-up.ts:480  createStartRunnerConfig stores JIT configurations
IsJitPath(cfg) == cfg.jit /\ cfg.ephemeral

\* the runner id the upstream service returns with the JIT configuration of
\* an instance (runnerConfig.data.runner.id, scale-up.ts:564)
JitRunnerId(instanceId) == 1000 + instanceId

\* The ways createStartRunnerConfig (scale-up.ts:475-578) can go for got
\* instances: written is the number of secrets stored, call the call that
\* threw ("none": no call threw; "token": the registration token;
\* "group": the runner-group lookup; "jit": the JIT-config generation of
\* instance written + 1; "ssm": putParameter of instance written + 1),
\* tagFailed the instances, by position, whose tag call failed.
StartConfigOutcomes(cfg, got, env) ==
  { o \in [written : 0..got, call : {"none", "token", "group", "jit", "ssm"},
           tagFailed : SUBSET (1..got)] :
      /\ (o.call = "none") <=> (o.written = got)
      /\ o.call \in {"token", "group", "jit"} => TRUE \in env.upstreamFails
      /\ o.call = "token" => ~IsJitPath(cfg) /\ o.written = 0
      /\ o.call = "group" => IsJitPath(cfg) /\ o.written = 0
      /\ o.call = "jit" => IsJitPath(cfg)
      /\ o.tagFailed \subseteq
           IF IsJitPath(cfg) /\ TRUE \in env.tagFails
           THEN 1..Min(got, o.written + (IF o.call = "ssm" THEN 1 ELSE 0))
           ELSE {} }

Op(op, instanceId, value, ok) == [op |-> op, id |-> instanceId, value |-> value, ok |-> ok]

\* scale-up.ts:498-520  createRegistrationTokenConfig for the k-th instance
TokenConfigOps(instanceId, k, o) ==
  IF k <= o.written THEN <<Op("put", instanceId, 0, TRUE)>>
  ELSE IF k = o.written + 1 /\ o.call = "ssm" THEN <<Op("put", instanceId, 0, FALSE)>>
  ELSE <<>>

\* the secret stored before the instance is tagged
JitConfigOps_PutFirst(instanceId, k, o) ==
  IF k <= o.written
  THEN << Op("jit", instanceId, JitRunnerId(instanceId), TRUE),
          Op("put", instanceId, JitRunnerId(instanceId), TRUE),
          Op("tag", instanceId, JitRunnerId(instanceId), k \notin o.tagFailed) >>
  ELSE <<>>

\* scale-up.ts:538-577  createJitConfig for the k-th instance: generate the
\* JIT configuration, tag the instance with the runner id, store the secret
JitConfigOps(instanceId, k, o) ==
  IF k <= o.written
  THEN << Op("jit", instanceId, JitRunnerId(instanceId), TRUE),
          Op("tag", instanceId, JitRunnerId(instanceId), k \notin o.tagFailed),
          Op("put", instanceId, JitRunnerId(instanceId), TRUE) >>
  ELSE IF k = o.written + 1 /\ o.call = "jit"
  THEN << Op("jit", instanceId, NoRunnerId, FALSE) >>
  ELSE IF k = o.written + 1 /\ o.call = "ssm"
  THEN << Op("jit", instanceId, JitRunnerId(instanceId), TRUE),
          Op("tag", instanceId, JitRunnerId(instanceId), k \notin o.tagFailed),
          Op("put", instanceId, JitRunnerId(instanceId), FALSE) >>
  ELSE <<>>

\* the calls of createStartRunnerConfig for the instances first ..
\* first + got - 1, from the k-th on
RECURSIVE InstanceOps(_, _, _, _, _)
InstanceOps(cfg, first, got, k, o) ==
  IF k > got THEN <<>>
  ELSE (IF IsJitPath(cfg) THEN JitConfigOps(first + k - 1, k, o)
        ELSE TokenConfigOps(first + k - 1, k, o))
       \o InstanceOps(cfg, first, got, k + 1, o)

\* scale-up.ts:475-485  createStartRunnerConfig: the token or the runner
\* group first, then the instances in the order of the response
StartConfigOps(cfg, first, got, o) ==
  (IF IsJitPath(cfg) THEN <<Op("group", 0, 0, o.call # "group")>>
   ELSE <<Op("token", 0, 0, o.call # "token")>>)
  \o (IF o.call \in {"group", "token"} THEN <<>> ELSE InstanceOps(cfg, first, got, 1, o))

\* the tag call of scale-up writing the orphan tag as well
TagRunnerId_WithOrphan(instance, runnerId, ok) ==
  IF ok THEN [instance EXCEPT !.runnerId = runnerId, !.orphan = TRUE] ELSE instance

\* scale-up.ts:522-528  tagRunnerId: a failing tag call is logged and
\* swallowed
TagRunnerId(instance, runnerId, ok) ==
  IF ok THEN [instance EXCEPT !.runnerId = runnerId] ELSE instance

\* the instance as the ops of createStartRunnerConfig leave it
Tagged(instance, ops) ==
  IF \E p \in 1..Len(ops) : ops[p].op = "tag" /\ ops[p].id = instance.id
  THEN LET p == CHOOSE p \in 1..Len(ops) : ops[p].op = "tag" /\ ops[p].id = instance.id
       IN TagRunnerId(instance, ops[p].value, ops[p].ok)
  ELSE instance

\* scale-up.ts:407-451, createRunners (scale-up.ts:211-228) and createRunner
\* (aws/runners.ts:131-235): the bulk create of the current group, the
\* start configuration of the returned instances and the shortfall rejects.
\* The create-fleet request returns between 0 and the requested number of
\* instances; a request for a negative capacity is refused by the cloud.
ScopeCreate(i, env) ==
  /\ run[i].pc = "create"
  /\ LET r == run[i]
         g == r.groups[r.gi]
         numberOfRunners == NumberOfRunners(r.newRunners)
     IN \/ /\ numberOfRunners < 0
           /\ run' = [run EXCEPT ![i] =
                  HandlerCatch([r EXCEPT !.fleetCalls = Append(@, FleetCall(r, {}, {}))],
                               FALSE, CreateRunnerScaleErrorCount)]
           /\ UNCHANGED <<instances, nextId, secrets>>
        \/ /\ numberOfRunners > 0
           /\ \E errors \in env.failErrors :
                run' = [run EXCEPT ![i] =
                  HandlerCatch([r EXCEPT !.fleetCalls = Append(@, FleetCall(r, {}, errors))],
                               CreateRunnerResult(0, errors) = "ScaleError",
                               CreateRunnerScaleErrorCount)]
           /\ UNCHANGED <<instances, nextId, secrets>>
        \/ /\ numberOfRunners > 0
           /\ \E got \in 1..numberOfRunners, errors \in env.partErrors :
              \E o \in StartConfigOutcomes(config, got, env) :
                LET ids == nextId..(nextId + got - 1)
                    ops == StartConfigOps(config, nextId, got, o)
                    rejected == ShortfallRejected(g.messages, r.newRunners, got)
                    called == [r EXCEPT !.fleetCalls = Append(@, FleetCall(r, ids, errors)),
                                        !.ops = @ \o ops]
                IN /\ CreateRunnerResult(got, errors) = "ok"
                   /\ instances' = instances \cup
                        { Tagged(FleetInstance(x, RunnerType(config.orgLevel), g.key,
                                               numberOfRunners), ops)
                          : x \in ids }
                   /\ nextId' = nextId + got
                   /\ secrets' = secrets \cup
                        { ops[p].id : p \in { q \in 1..Len(ops) :
                                                ops[q].op = "put" /\ ops[q].ok } }
                   /\ run' = [run EXCEPT ![i] =
                        IF o.call # "none"
                        THEN UpstreamThrows(called, o.call, g.key)
                        ELSE [called EXCEPT
                                !.invalidMessages = @ \o MessageIds(rejected),
                                !.shortLog = Append(@, [key |-> g.key,
                                                        newRunners |-> r.newRunners,
                                                        got |-> got,
                                                        pending |-> MessageIds(g.messages),
                                                        rejected |-> MessageIds(rejected)]),
                                !.gi = r.gi + 1, !.pc = "group"]]
  /\ UNCHANGED <<config, started, ghRunners, down, pool, retry>>

\* scale-up.ts:454 and lambda.ts:44-52: scaleUp returns its reject list and
\* the handler reports it as batchItemFailures.
ScaleUpReturn(i) ==
  /\ run[i].pc = "group"
  /\ run[i].gi > Len(run[i].groups)
  /\ run' = [run EXCEPT ![i] = [@ EXCEPT !.pc = "done", !.outcome = "ok",
                                         !.batchItemFailures = run[i].invalidMessages]]
  /\ UNCHANGED <<config, instances, nextId, secrets, started, ghRunners, down, pool, retry>>

\* aws/runners.ts:94-98  terminateRunner: an instance leaves the inventory
TerminateRunner(x) ==
  /\ x \in instances
  /\ instances' = instances \ {x}
  /\ UNCHANGED <<config, nextId, secrets, started, run, ghRunners, down, pool, retry>>

Next ==
  \/ started < 1 /\ \E records \in Events : ScaleUpHandler(1, records, Reliable)
  \/ ScopeCount(1, Reliable)
  \/ ScopeCreate(1, Reliable)
  \/ ScaleUpReturn(1)

Spec == Init /\ [][Next]_vars

NextConc ==
  \/ \E i \in Procs :
       \/ started < MaxInvocations
          /\ \E records \in ConcEvents : ScaleUpHandler(i, records, Reliable)
       \/ ScopeCount(i, Reliable)
       \/ ScopeCreate(i, Reliable)
       \/ ScaleUpReturn(i)
  \/ \E x \in instances : TerminateRunner(x)

SpecConc == InitConc /\ [][NextConc]_vars

\* ------------------------------------------- the handler around scaleUp
\* lambda.test.ts:211-231  scaleUp rejects with an error of the caller's
\* making: new ScaleError(n), or an error of another class.
ScaleUpRejects(i) ==
  /\ run[i].pc = "group"
  /\ \E isScaleError \in BOOLEAN, n \in FailedCounts :
       /\ ~isScaleError => n = 1
       /\ run' = [run EXCEPT ![i] = HandlerCatch(@, isScaleError, ScaleErrorOf(n))]
  /\ UNCHANGED <<config, instances, nextId, secrets, started, ghRunners, down, pool, retry>>

HandlerConfigs ==
  { c \in Configs : c.orgLevel /\ c.ephemeral /\ ~c.queuedCheck /\ c.maxRunners = Unlimited }

InitHandler ==
  /\ config \in HandlerConfigs
  /\ instances = {}
  /\ nextId = 1
  /\ secrets = {}
  /\ started = 0
  /\ run = [i \in Procs |-> IdleRun]
  /\ ghRunners = {}
  /\ down = IdleDown
  /\ pool = IdlePool
  /\ retry = IdleRetry

NextHandler ==
  \/ started < 1 /\ \E records \in Events : ScaleUpHandler(1, records, Reliable)
  \/ ScaleUpRejects(1)

\* scaleUpHandler over every batch, scaleUp replaced by a rejection
SpecHandler == InitHandler /\ [][NextHandler]_vars

\* --------------------------------- one invocation, every answer followed
InitCreate ==
  /\ config \in CreateConfigs
  /\ instances = {}
  /\ nextId = 1
  /\ secrets = {}
  /\ started = 0
  /\ run = [i \in Procs |-> IdleRun]
  /\ ghRunners = {}
  /\ down = IdleDown
  /\ pool = IdlePool
  /\ retry = IdleRetry

NextCreate ==
  \/ started < 1 /\ \E records \in CreateEvents : ScaleUpHandler(1, records, Faulty)
  \/ ScopeCount(1, Faulty)
  \/ ScopeCreate(1, Faulty)
  \/ ScaleUpReturn(1)

\* One invocation over small batches of queued jobs, with every answer of
\* the cloud and of the upstream service: failing upstream calls, failing
\* tag calls, every set of error codes.
SpecCreate == InitCreate /\ [][NextCreate]_vars

\* -------------------------------------------------------------- scale-down
\* What the upstream service holds for the runner of an instance.
UpstreamStates == {"absent", "online-idle", "online-busy", "offline-idle", "offline-busy"}

\* the runner registered upstream for an instance: its name ends with the
\* instance id (scale-down.ts:190-192)
GhRunner(instanceId, owner, state) ==
  [id |-> JitRunnerId(instanceId), name |-> instanceId, owner |-> owner,
   status |-> IF state \in {"online-idle", "online-busy"} THEN "online" ELSE "offline",
   busy |-> state \in {"online-busy", "offline-busy"}]

\* scale-down.ts:76-79  the answer to a lookup the upstream service ends
\* with 404 (null in the code)
NotFound ==
  [id |-> NoRunnerId, name |-> 0, owner |-> NoKey, status |-> "404", busy |-> FALSE]

\* MINIMUM_RUNNING_TIME_IN_MINUTES, RUNNER_BOOT_TIME_IN_MINUTES and
\* SCALE_DOWN_CONFIG (scale-down.ts:124, 178-179, 311; aws/runners.ts:256)
DownConfigs ==
  [idleCount : {0, 1}, evictionStrategy : {"oldest_first", "newest_first"},
   minimumRunningTime : {1}, bootTime : {2}]

\* the times at which the invocation runs; instance k was launched at k,
\* so none was launched after the invocation started
Nows == MaxDown..(MaxDown + 2)

\* an instance as the scale-down invocation finds it
DownInstance(k, tagged, orphan) ==
  [FleetInstance(k, "Org", <<"A">>, 1) EXCEPT
     !.runnerId = IF tagged THEN JitRunnerId(k) ELSE NoRunnerId, !.orphan = orphan]

\* the instances of a listing in the order of the answer (by instance id)
RECURSIVE ListOf(_)
ListOf(set) ==
  IF set = {} THEN <<>>
  ELSE LET x == CHOOSE x \in set : \A y \in set : x.id <= y.id
       IN <<x>> \o ListOf(set \ {x})

\* listEC2Runners({ environment, orphan: true }) (scale-down.ts:264): the
\* instances that carry the tag ghr:orphan = true
ListOrphanRunners(set) == { x \in set : x.orphan }

\* the tag call of markOrphan and the untag call of unMarkOrphan
\* (scale-down.ts:223, 232)
TagOrphan(set, instanceId, orphan) ==
  { IF x.id = instanceId THEN [x EXCEPT !.orphan = orphan] ELSE x : x \in set }

\* aws/runners.ts:94-98  terminateRunner by instance id
Terminated(set, instanceId) == { x \in set : x.id # instanceId }

\* scale-down.ts:55-82  getGitHubSelfHostedRunnerState
GetGitHubSelfHostedRunnerState(runnerId) ==
  IF \E g \in ghRunners : g.id = runnerId
  THEN CHOOSE g \in ghRunners : g.id = runnerId
  ELSE NotFound

\* a runner the upstream service does not know taken as no orphan
LastChanceCheckOrphanRunner_FoundOnly(state) ==
  IF state = NotFound THEN FALSE ELSE state.status = "offline" /\ state.busy

\* only a runner the upstream service does not know taken as an orphan
LastChanceCheckOrphanRunner_NotFoundOnly(state) ==
  state = NotFound

\* every orphan-tagged instance taken as an orphan whatever the lookup says
LastChanceCheckOrphanRunner_Unchecked(state) ==
  TRUE

\* a runner that is offline taken as an orphan whether busy or not
LastChanceCheckOrphanRunner_AnyOffline(state) ==
  IF state = NotFound THEN TRUE ELSE state.status = "offline"

\* scale-down.ts:239-260  lastChanceCheckOrphanRunner
LastChanceCheckOrphanRunner(state) ==
  IF state = NotFound THEN TRUE ELSE state.status = "offline" /\ state.busy

\* the minimum running time not looked at
RunnerMinimumTimeExceeded_Always(runner, now) ==
  TRUE

\* scale-down.ts:123-128  runnerMinimumTimeExceeded
RunnerMinimumTimeExceeded(runner, now) ==
  runner.launchTime + config.minimumRunningTime < now

\* the threshold counted as passed at the moment it is reached
BootTimeExceeded_AtThreshold(runner, now) ==
  runner.launchTime + config.bootTime <= now

\* aws/runners.ts:255-260  bootTimeExceeded
BootTimeExceeded(runner, now) ==
  runner.launchTime + config.bootTime < now

\* the older of two instances put ahead of the newer under oldest_first
RECURSIVE SortByLaunchTime_OldestAhead(_, _)
SortByLaunchTime_OldestAhead(set, evictionStrategy) ==
  IF set = {} THEN <<>>
  ELSE LET x == CHOOSE x \in set : \A y \in set :
                  IF evictionStrategy = "oldest_first"
                  THEN y.launchTime >= x.launchTime
                  ELSE y.launchTime <= x.launchTime
       IN <<x>> \o SortByLaunchTime_OldestAhead(set \ {x}, evictionStrategy)

\* Array.prototype.sort with oldestFirstStrategy (scale-down.ts:286-292),
\* which puts the older of two instances behind the newer, or with
\* newestFirstStrategy (scale-down.ts:294-296), its inverse
RECURSIVE SortByLaunchTime(_, _)
SortByLaunchTime(set, evictionStrategy) ==
  IF set = {} THEN <<>>
  ELSE LET x == CHOOSE x \in set : \A y \in set :
                  IF evictionStrategy = "oldest_first"
                  THEN y.launchTime <= x.launchTime
                  ELSE y.launchTime >= x.launchTime
       IN <<x>> \o SortByLaunchTime(set \ {x}, evictionStrategy)

\* scale-down.ts:180-188  the runners owner by owner, each owner's sorted
RECURSIVE EvaluationOrder(_, _)
EvaluationOrder(runners, evictionStrategy) ==
  IF runners = <<>> THEN <<>>
  ELSE LET owner == Head(runners).owner
       IN SortByLaunchTime({ runners[p] : p \in { q \in 1..Len(runners) :
                                                    runners[q].owner = owner } },
                           evictionStrategy)
          \o EvaluationOrder(SelectSeq(runners, LAMBDA r : r.owner # owner),
                             evictionStrategy)

\* the orphan test left out of the filter
FilterRunners_KeepOrphans(ec2runners) ==
  SelectSeq(ec2runners, LAMBDA r : r.type # "")

\* scale-down.ts:304-306  filterRunners
FilterRunners(ec2runners) ==
  SelectSeq(ec2runners, LAMBDA r : r.type # "" /\ ~r.orphan)

\* a call of the invocation on record: listed is the instance as the
\* phase's listing returned it, state the upstream answer used
DownCall(phase, op, ok, listed, state) ==
  [phase |-> phase, op |-> op, id |-> listed.id, ok |-> ok, listed |-> listed,
   state |-> state]

\* The instances and upstream runners one invocation starts from.
InitDown ==
  /\ config \in DownConfigs
  /\ \E n \in 0..MaxDown :
       \E tagged \in [1..n -> BOOLEAN], orphan \in [1..n -> BOOLEAN],
          upstream \in [1..n -> UpstreamStates] :
         /\ instances = { DownInstance(k, tagged[k], orphan[k]) : k \in 1..n }
         /\ ghRunners = { GhRunner(k, <<"A">>, upstream[k]) :
                            k \in { j \in 1..n : upstream[j] # "absent" } }
         /\ nextId = n + 1
  /\ secrets = {}
  /\ started = 0
  /\ run = [i \in Procs |-> IdleRun]
  /\ down = IdleDown
  /\ pool = IdlePool
  /\ retry = IdleRetry

\* lambda.ts:67-76 and scale-down.ts:308-314, 262-264: the handler calls
\* scaleDown, which resets the cache and lists the orphan-tagged instances.
ScaleDownHandlerFrom(pcs, nows) ==
  /\ down.pc \in pcs
  /\ \E now \in nows :
       LET orphanRunners == ListOf(ListOrphanRunners(instances))
       IN down' = [IdleDown EXCEPT !.pc = IF orphanRunners = <<>> THEN "list" ELSE "orphans",
                                   !.now = now, !.orphanRunners = orphanRunners,
                                   !.marked = down.marked]
  /\ UNCHANGED <<config, instances, nextId, secrets, started, run, ghRunners, pool, retry>>

\* the first invocation
ScaleDownHandlerAt(nows) == ScaleDownHandlerFrom({"idle"}, nows)

ScaleDownHandler == ScaleDownHandlerAt(Nows)

\* what the calls of removeRunner (scale-down.ts:130-172) can come to
RemoveAnswers == {"ok", "lookup-error", "delete-failed", "terminate-failed"}

\* The calls Phase 2 makes and how they may end: every way in AnyAnswer,
\* and in NoOutage only the answers of a working upstream service and cloud
\* (a delete may still be refused).
AnyAnswer ==
  [removeAnswers |-> RemoveAnswers, listFails |-> BOOLEAN, tagFails |-> BOOLEAN,
   lookupFails |-> BOOLEAN, callOk |-> BOOLEAN]
NoOutage ==
  [removeAnswers |-> {"ok", "delete-failed"}, listFails |-> {FALSE}, tagFails |-> {FALSE},
   lookupFails |-> {FALSE}, callOk |-> {TRUE}]

\* every call of the invocation succeeds
AllSucceed ==
  [removeAnswers |-> {"ok"}, listFails |-> {FALSE}, tagFails |-> {FALSE},
   lookupFails |-> {FALSE}, callOk |-> {TRUE}]

\* the error rethrown to the scheduler
ScaleDownHandlerReturn_Rethrow(outcome) ==
  IF outcome = "error" THEN "thrown" ELSE "normal"

\* lambda.ts:71-75  scaleDownHandler catches and logs whatever scaleDown
\* throws
ScaleDownHandlerReturn(outcome) ==
  "normal"

\* scaleDown has ended, with or without an error, and the handler returns
Ended(d, outcome) ==
  [d EXCEPT !.pc = "done", !.outcome = outcome,
            !.returned = ScaleDownHandlerReturn(outcome)]

\* the failure of Phase 1 ending the invocation
OrphanLoopCatch_EndsInvocation(d) ==
  Ended(d, "error")

\* scale-down.ts:280-283  the catch of terminateOrphan: the failure is
\* logged, the loop is left and scaleDown goes on with the listing of
\* Phase 2
OrphanLoopCatch(d) ==
  [d EXCEPT !.pc = "list"]

\* scale-down.ts:266-283  one turn of the loop of terminateOrphan.  The
\* upstream lookup may fail with another error than 404 and the terminate
\* call may fail: in the branch with a runner id both leave the loop through
\* the catch of terminateOrphan; a failing untag call is swallowed by
\* unMarkOrphan, a failing terminate call of the branch without runner id
\* by its own catch.
TerminateOrphanIn(env) ==
  /\ down.pc = "orphans"
  /\ LET runner == down.orphanRunners[down.oi]
         state == GetGitHubSelfHostedRunnerState(runner.runnerId)
         next == IF down.oi = Len(down.orphanRunners) THEN "list" ELSE "orphans"
         Called(op, ok, answer) ==
           [down EXCEPT !.log = Append(@, DownCall(1, op, ok, runner, answer)),
                        !.oi = @ + 1, !.pc = next]
     IN \E lookupFails \in env.lookupFails, ok \in env.callOk :
          IF runner.runnerId # NoRunnerId
          THEN IF lookupFails
               THEN /\ down' = OrphanLoopCatch(Called("lookup", FALSE, NotFound))
                    /\ UNCHANGED instances
               ELSE IF LastChanceCheckOrphanRunner(state)
               THEN /\ down' = IF ok THEN Called("terminate", ok, state)
                                ELSE OrphanLoopCatch(Called("terminate", ok, state))
                    /\ instances' = IF ok THEN Terminated(instances, runner.id) ELSE instances
               ELSE /\ down' = Called("untag", ok, state)
                    /\ instances' = IF ok THEN TagOrphan(instances, runner.id, FALSE)
                                     ELSE instances
          ELSE /\ down' = Called("terminate", ok, NotFound)
               /\ instances' = IF ok THEN Terminated(instances, runner.id) ELSE instances
  /\ UNCHANGED <<config, nextId, secrets, started, run, ghRunners, pool, retry>>

TerminateOrphan == TerminateOrphanIn(AnyAnswer)

\* scale-down.ts:317-327, 178-188: the listing of Phase 2, which may fail,
\* the filter and the evaluation order.
ListRunners(env) ==
  /\ down.pc = "list"
  /\ \E listFails \in env.listFails :
       LET ec2Runners == ListOf(instances)
           runners == EvaluationOrder(FilterRunners(ec2Runners), config.evictionStrategy)
           listed == [down EXCEPT !.ec2Runners = ec2Runners, !.runners = runners,
                                  !.idleCounter = config.idleCount, !.pc = "evaluate"]
       IN down' = IF listFails THEN Ended(down, "error")
                  ELSE IF runners = <<>> THEN Ended(listed, "ok")
                  ELSE listed
  /\ UNCHANGED <<config, instances, nextId, secrets, started, run, ghRunners, pool, retry>>

\* scale-down.ts:96-121  listGitHubRunners: the runners of the owner, from
\* the cache when the owner has been listed in this invocation
ListGitHubRunners(owner) ==
  IF owner \in down.cached
  THEN { g \in down.cache : g.owner = owner }
  ELSE { g \in ghRunners : g.owner = owner }

\* the busy flag taken from the cached listing where it has the runner
GetGitHubRunnerBusyState_Cached(runnerId) ==
  IF \E g \in down.cache : g.id = runnerId
  THEN (CHOOSE g \in down.cache : g.id = runnerId).busy
  ELSE GetGitHubSelfHostedRunnerState(runnerId).busy

\* scale-down.ts:84-94  getGitHubRunnerBusyState: a direct lookup, a runner
\* that is gone counts as not busy
GetGitHubRunnerBusyState(runnerId) ==
  GetGitHubSelfHostedRunnerState(runnerId).busy

\* scale-down.ts:143-166  the calls of removeRunner for a runner that is not
\* busy: the deletes, and the terminate call when every delete answered 204
RemoveRunnerCalls(deleted, terminated) ==
  IF deleted
  THEN <<[op |-> "deregister", ok |-> TRUE], [op |-> "terminate", ok |-> terminated]>>
  ELSE <<[op |-> "deregister", ok |-> FALSE]>>

\* scale-down.ts:188-217 and removeRunner (scale-down.ts:130-172): one turn
\* of the inner loop of evaluateAndRemoveRunners.  The upstream listing of
\* an owner may fail, which ends scaleDown with an error the handler logs
\* (lambda.ts:73-75).
EvaluateRunner(env) ==
  /\ down.pc = "evaluate"
  /\ LET runner == down.runners[down.ri]
         ghList == ListGitHubRunners(runner.owner)
         matched == { g \in ghList : g.name = runner.id }
         busy == \E g \in matched : GetGitHubRunnerBusyState(g.id)
         state == IF matched = {} THEN NotFound ELSE CHOOSE g \in matched : TRUE
         next == IF down.ri = Len(down.runners) THEN "done" ELSE "evaluate"
         Visited(calls) ==
           LET visited == [down EXCEPT !.log = @ \o calls, !.ri = @ + 1,
                                       !.cached = @ \cup {runner.owner},
                                       !.cache = @ \cup ghList]
           IN IF next = "done" THEN Ended(visited, "ok") ELSE visited
         Called(op, ok) == Visited(<<DownCall(2, op, ok, runner, state)>>)
     IN \E listFails \in env.listFails, tagFails \in env.tagFails,
           answer \in env.removeAnswers :
          IF listFails /\ runner.owner \notin down.cached
          THEN /\ down' = Ended([down EXCEPT !.log = Append(@, DownCall(2, "list", FALSE,
                                                                        runner, NotFound))],
                                "error")
               /\ UNCHANGED <<instances, ghRunners>>
          ELSE IF matched # {}
          THEN IF RunnerMinimumTimeExceeded(runner, down.now)
               THEN IF down.idleCounter > 0
                    THEN /\ down' = [Called("keep-idle", TRUE) EXCEPT !.idleCounter = @ - 1]
                         /\ UNCHANGED <<instances, ghRunners>>
                    ELSE IF answer = "lookup-error"
                    THEN /\ down' = Called("busy-lookup", FALSE)
                         /\ UNCHANGED <<instances, ghRunners>>
                    ELSE IF busy
                    THEN /\ down' = Called("keep-busy", TRUE)
                         /\ UNCHANGED <<instances, ghRunners>>
                    ELSE LET calls == RemoveRunnerCalls(answer # "delete-failed",
                                                        answer = "ok")
                             Did(op) == \E p \in 1..Len(calls) :
                                          calls[p].op = op /\ calls[p].ok
                         IN /\ down' = Visited([p \in 1..Len(calls) |->
                                                  DownCall(2, calls[p].op, calls[p].ok,
                                                           runner, state)])
                            /\ ghRunners' = IF answer # "delete-failed"
                                             THEN { g \in ghRunners :
                                                      \A m \in matched : g.id # m.id }
                                             ELSE ghRunners
                            /\ instances' = IF Did("terminate")
                                             THEN Terminated(instances, runner.id)
                                             ELSE instances
               ELSE /\ down' = Called("keep-young", TRUE)
                    /\ UNCHANGED <<instances, ghRunners>>
          ELSE IF BootTimeExceeded(runner, down.now)
          THEN /\ down' = [Called("tag", ~tagFails) EXCEPT
                              !.marked = IF tagFails THEN @ ELSE @ \cup {runner.id}]
               /\ instances' = IF ~tagFails THEN TagOrphan(instances, runner.id, TRUE)
                                ELSE instances
               /\ UNCHANGED ghRunners
          ELSE /\ down' = Called("booting", TRUE)
               /\ UNCHANGED <<instances, ghRunners>>
  /\ UNCHANGED <<config, nextId, secrets, started, run, pool, retry>>

NextDown ==
  \/ ScaleDownHandler
  \/ TerminateOrphan
  \/ ListRunners(AnyAnswer)
  \/ EvaluateRunner(AnyAnswer)

\* One scale-down invocation over every small inventory.
SpecDown == InitDown /\ [][NextDown]_vars

\* ------------------------------------------ scale-down over a warm fleet
\* SCALE_DOWN_CONFIG with idle counts up to 2 (scale-down.ts:178-179, 311)
EvictConfigs ==
  [idleCount : 0..2, evictionStrategy : {"oldest_first", "newest_first"},
   minimumRunningTime : {1}, bootTime : {2}]

\* the owner of instance k: one owner for all, or two owners in turn
EvictOwner(k, owners) == IF owners = 2 /\ k % 2 = 0 THEN <<"B">> ELSE <<"A">>

\* A fleet of registered runners, none orphan-tagged, each online and busy
\* or idle; at the earlier time the newest two are below the minimum
\* running time, at the later time none is.
InitEvict ==
  /\ config \in EvictConfigs
  /\ \E n \in 0..MaxEvict, owners \in 1..2 :
       \E busy \in [1..n -> BOOLEAN] :
         /\ instances = { [DownInstance(k, TRUE, FALSE) EXCEPT
                             !.owner = EvictOwner(k, owners)] : k \in 1..n }
         /\ ghRunners = { GhRunner(k, EvictOwner(k, owners),
                                    IF busy[k] THEN "online-busy" ELSE "online-idle") :
                            k \in 1..n }
         /\ nextId = n + 1
  /\ secrets = {}
  /\ started = 0
  /\ run = [i \in Procs |-> IdleRun]
  /\ down = IdleDown
  /\ pool = IdlePool
  /\ retry = IdleRetry

\* the times at which the invocation over the warm fleet runs
EvictNows == {MaxEvict, MaxEvict + 2}

\* The upstream service hands a job to the idle runner of the instance that
\* is evaluated next, after the listing of its owner was cached: the race
\* the direct busy lookup of removeRunner (scale-down.ts:134-136) is for.
JobAssigned ==
  /\ down.pc = "evaluate"
  /\ LET runner == down.runners[down.ri]
     IN /\ runner.owner \in down.cached
        /\ \E g \in ghRunners :
             /\ g.name = runner.id /\ g.status = "online" /\ ~g.busy
             /\ ghRunners' = (ghRunners \ {g}) \cup {[g EXCEPT !.busy = TRUE]}
  /\ UNCHANGED <<config, instances, nextId, secrets, started, run, down, pool, retry>>

NextEvict ==
  \/ ScaleDownHandlerAt(EvictNows)
  \/ ListRunners(NoOutage)
  \/ EvaluateRunner(NoOutage)
  \/ JobAssigned

\* One scale-down invocation over a fleet of registered runners.
SpecEvict == InitEvict /\ [][NextEvict]_vars

\* -------------------------------------------------------------------- pool
\* RUNNER_OWNER (pool.ts:34): the organisation the pool is kept for
PoolOwner == <<"A">>

\* ENABLE_EPHEMERAL_RUNNERS (pool.ts:29), the start configuration of
\* createRunners and RUNNER_BOOT_TIME_IN_MINUTES
PoolConfigs == [ephemeral : BOOLEAN, jit : {TRUE}, bootTime : {2}]

\* event.poolSize (pool.ts:10-12, 88)
PoolSizes == 0..MaxPool

\* the times at which the pool invocation runs
PoolNows == MaxPool..(MaxPool + 1)

\* pool.ts:60-65  the running instances of the owner
ListRunningRunners(runnerOwner) ==
  { x \in ListEC2Runners("Org", runnerOwner) : x.state = "running" }

\* an idle runner counted whatever its status
InPool_AnyStatus(x, now) ==
  LET status == { g \in ghRunners : g.owner = PoolOwner /\ g.name = x.id }
  IN IF \E g \in status : ~g.busy
     THEN TRUE
     ELSE IF status # {} THEN FALSE
     ELSE ~BootTimeExceeded(x, now)

\* pool.ts:54-57, 69-86  whether an instance counts for the pool, from the
\* status of the upstream runner named after it
InPool(x, now) ==
  LET status == { g \in ghRunners : g.owner = PoolOwner /\ g.name = x.id }
  IN IF \E g \in status : ~g.busy /\ g.status = "online"
     THEN TRUE
     ELSE IF status # {} THEN FALSE
     ELSE ~BootTimeExceeded(x, now)

\* an instance as the pool invocation finds it
PoolInstance(k, owner, state) ==
  [DownInstance(k, TRUE, FALSE) EXCEPT !.owner = owner, !.state = state]

\* Up to MaxPool instances, each of the pool's owner or of another, running
\* in any upstream state or pending and not yet registered upstream.
InitPool ==
  /\ config \in PoolConfigs
  /\ \E n \in 0..MaxPool :
       \E owner \in [1..n -> {PoolOwner, <<"B">>}], state \in [1..n -> {"running", "pending"}],
          upstream \in [1..n -> UpstreamStates] :
         /\ \A k \in 1..n : state[k] = "pending" => upstream[k] = "absent"
         /\ instances = { PoolInstance(k, owner[k], state[k]) : k \in 1..n }
         /\ ghRunners = { GhRunner(k, owner[k], upstream[k]) :
                            k \in { j \in 1..n : upstream[j] # "absent" } }
         /\ nextId = n + 1
  /\ secrets = {}
  /\ started = 0
  /\ run = [i \in Procs |-> IdleRun]
  /\ down = IdleDown
  /\ pool = IdlePool
  /\ retry = IdleRetry

\* lambda.ts:82-87  adjustPool catches and logs whatever adjust throws
AdjustPoolReturn(outcome) == "normal"

\* lambda.ts:78-88 and pool.ts:19-120: adjustPool.  The upstream lookups
\* (installation, token, runner listing) may fail; the create-fleet call
\* returns between 0 and topUp instances, none of them being an error of
\* createRunner; the start configuration may fail on the way.
AdjustPool(env) ==
  /\ pool.pc = "idle"
  /\ \E poolSize \in PoolSizes, now \in PoolNows, lookupFails \in env.upstreamFails :
       LET numberOfRunnersInPool ==
             Cardinality({ x \in ListRunningRunners(PoolOwner) : InPool(x, now) })
           topUp == poolSize - numberOfRunnersInPool
           Done(calls, outcome) ==
             [pc |-> "done", now |-> now, poolSize |-> poolSize,
              numberOfRunnersInPool |-> IF lookupFails THEN 0 ELSE numberOfRunnersInPool,
              calls |-> calls, outcome |-> outcome, returned |-> AdjustPoolReturn(outcome)]
       IN IF lookupFails
          THEN /\ pool' = Done(<<>>, "lookup-error")
               /\ UNCHANGED <<instances, nextId, secrets>>
          ELSE IF topUp > 0
          THEN \/ /\ \E errors \in env.failErrors : pool' = Done(<<topUp>>, "create-error")
                  /\ UNCHANGED <<instances, nextId, secrets>>
               \/ \E got \in 1..topUp :
                  \E o \in StartConfigOutcomes(config, got, env) :
                    LET ids == nextId..(nextId + got - 1)
                        ops == StartConfigOps(config, nextId, got, o)
                    IN /\ pool' = Done(<<topUp>>, IF o.call = "none" THEN "ok"
                                                  ELSE "config-error")
                       /\ instances' = instances \cup
                            { Tagged(FleetInstance(x, "Org", PoolOwner, topUp), ops)
                              : x \in ids }
                       /\ nextId' = nextId + got
                       /\ secrets' = secrets \cup
                            { ops[p].id : p \in { q \in 1..Len(ops) :
                                                    ops[q].op = "put" /\ ops[q].ok } }
          ELSE /\ pool' = Done(<<>>, "ok")
               /\ UNCHANGED <<instances, nextId, secrets>>
  /\ UNCHANGED <<config, started, run, ghRunners, down, retry>>

NextPool == AdjustPool(Reliable)

\* One pool invocation over every small inventory.
SpecPool == InitPool /\ [][NextPool]_vars

\* ------------------------------------------------------------- retry layer
\* JOB_RETRY_CONFIG (job-retry.test.ts:99-106): absent, or enable,
\* maxAttempts, delayInSeconds and delayBackoff
RetryConfigs ==
  { c \in [configured : BOOLEAN, enable : BOOLEAN,
           maxAttempts : {NoMaxAttempts} \cup (1..MaxAttempts),
           delayInSeconds : {10, 500}, delayBackoff : {2, 3}] :
      ~c.configured => (~c.enable /\ c.maxAttempts = NoMaxAttempts
                        /\ c.delayInSeconds = 10 /\ c.delayBackoff = 2) }

\* the message of the job, with and without retry counter
RetryMessage(retryCounter) ==
  [id |-> 1, eventType |-> "workflow_job", repositoryOwner |-> "A", repositoryName |-> "r",
   repoOwnerType |-> "Organization", retryCounter |-> retryCounter]

\* the message of another job of the repository
JobMessage(id, retryCounter) ==
  [RetryMessage(retryCounter) EXCEPT !.id = id]

\* a call of publishMessage: the message, the queue and the delay in
\* seconds (0 for a call without delay)
PublishMessage(message, queue, delay) ==
  [message |-> message, queue |-> queue, delay |-> delay]

RECURSIVE Pow(_, _)
Pow(b, e) == IF e <= 0 THEN 1 ELSE b * Pow(b, e - 1)

\* the counter carried over as it came
NewRetryCounter_Unchanged(payload) ==
  IF payload.retryCounter = NoCounter THEN 0 ELSE payload.retryCounter

\* the counter of the republished message
NewRetryCounter(payload) ==
  (IF payload.retryCounter = NoCounter THEN -1 ELSE payload.retryCounter) + 1

\* the delay computed from the counter of the incoming message
RetryDelay_IncomingCounter(payload, cfg) ==
  Min(MaxQueueDelay,
      cfg.delayInSeconds * Pow(cfg.delayBackoff, NewRetryCounter(payload) - 1))

\* the delay of the republished message: exponential in its counter and
\* capped (job-retry.test.ts:60-73)
RetryDelay(payload, cfg) ==
  Min(MaxQueueDelay, cfg.delayInSeconds * Pow(cfg.delayBackoff, NewRetryCounter(payload)))

\* a message published whatever maxAttempts says
PublishRetryMessage_Unbounded(payload, cfg) ==
  IF cfg.configured /\ cfg.enable
  THEN << PublishMessage([payload EXCEPT !.retryCounter = NewRetryCounter(payload)],
                         "retry", RetryDelay(payload, cfg)) >>
  ELSE <<>>

\* publishRetryMessage: the calls of publishMessage it makes for a message
PublishRetryMessage(payload, cfg) ==
  IF /\ cfg.configured /\ cfg.enable
     /\ cfg.maxAttempts # NoMaxAttempts
     /\ NewRetryCounter(payload) < cfg.maxAttempts
  THEN << PublishMessage([payload EXCEPT !.retryCounter = NewRetryCounter(payload)],
                         "retry", RetryDelay(payload, cfg)) >>
  ELSE <<>>

\* checkAndRetryJob: a job that is still queued has its message published
\* to the scale-up queue as it is (job-retry.test.ts:141-171); any other
\* status publishes nothing (job-retry.test.ts:218-270)
CheckAndRetryJob(payload, status) ==
  IF status = "queued" THEN << PublishMessage(payload, "scale-up", 0) >> ELSE <<>>

RECURSIVE Flatten(_)
Flatten(seqs) == IF seqs = <<>> THEN <<>> ELSE Head(seqs) \o Flatten(Tail(seqs))

\* the messages of a set as the records of one event, by retry counter
RECURSIVE RecordsOf(_)
RecordsOf(set) ==
  IF set = {} THEN <<>>
  ELSE LET m == CHOOSE m \in set : \A o \in set : m.retryCounter <= o.retryCounter
       IN <<m>> \o RecordsOf(set \ {m})

\* the messages of the calls made to a queue
Sent(calls, queue) ==
  { calls[p].message : p \in { q \in 1..Len(calls) : calls[q].queue = queue } }

\* One message of the job on the scale-up queue, with any counter.
InitRetry ==
  /\ config \in RetryConfigs
  /\ \E retryCounter \in {NoCounter} \cup (0..MaxAttempts) :
       retry = [IdleRetry EXCEPT !.scaleUpQueue = {RetryMessage(retryCounter)}]
  /\ instances = {}
  /\ ghRunners = {}
  /\ nextId = 1
  /\ secrets = {}
  /\ started = 0
  /\ run = [i \in Procs |-> IdleRun]
  /\ down = IdleDown
  /\ pool = IdlePool

\* The scale-up side takes a message from its queue and, the job not being
\* served, hands it to publishRetryMessage.  The record of calls is capped
\* beyond the length the longest chain of MaxAttempts republishes reaches.
ScaleUpPublishesRetry ==
  /\ Len(retry.published) < 2 * MaxAttempts + 2
  /\ \E m \in retry.scaleUpQueue :
       LET calls == PublishRetryMessage(m, config)
       IN retry' = [retry EXCEPT !.scaleUpQueue = @ \ {m},
                                 !.retryQueue = @ \cup Sent(calls, "retry"),
                                 !.published = @ \o calls]
  /\ UNCHANGED <<config, instances, nextId, secrets, started, run, ghRunners, down, pool>>

\* the loop left at the first record whose check fails
RECURSIVE CheckRecords_StopAtFailure(_, _)
CheckRecords_StopAtFailure(records, answers) ==
  IF records = <<>> \/ Head(answers) = "error" THEN <<>>
  ELSE CheckAndRetryJob(Head(records), Head(answers))
         \o CheckRecords_StopAtFailure(Tail(records), Tail(answers))

\* lambda.ts:118-123  the loop of jobRetryCheck: checkAndRetryJob for each
\* record, its failure caught and logged and the next record taken
RECURSIVE CheckRecords(_, _)
CheckRecords(records, answers) ==
  IF records = <<>> THEN <<>>
  ELSE (IF Head(answers) = "error" THEN <<>>
        ELSE CheckAndRetryJob(Head(records), Head(answers)))
         \o CheckRecords(Tail(records), Tail(answers))

\* lambda.ts:124  the handler resolves after the loop
JobRetryCheckReturn(answers) ==
  "normal"

\* lambda.ts:114-125  jobRetryCheck over the messages of the retry queue.
\* The check of a record fails (answer "error") when the upstream client or
\* the job query throws; otherwise the query answers the status of the job.
JobRetryCheck ==
  /\ retry.retryQueue # {}
  /\ \E failed \in SUBSET retry.retryQueue :
       LET records == RecordsOf(retry.retryQueue)
           answers == [p \in 1..Len(records) |->
                         IF records[p] \in failed THEN "error"
                         ELSE retry.jobStatus[records[p].id]]
           calls == CheckRecords(records, answers)
       IN retry' = [retry EXCEPT !.retryQueue = {},
                                 !.scaleUpQueue = @ \cup Sent(calls, "scale-up"),
                                 !.published = @ \o calls,
                                 !.check = [records |-> records, answers |-> answers,
                                            calls |-> calls,
                                            returned |-> JobRetryCheckReturn(answers)]]
  /\ UNCHANGED <<config, instances, nextId, secrets, started, run, ghRunners, down, pool>>

\* a runner picks a job up: it is no longer queued upstream
JobStarts ==
  /\ \E id \in DOMAIN retry.jobStatus :
       /\ retry.jobStatus[id] = "queued"
       /\ retry' = [retry EXCEPT !.jobStatus[id] = "in_progress"]
  /\ UNCHANGED <<config, instances, nextId, secrets, started, run, ghRunners, down, pool>>

NextRetry ==
  \/ ScaleUpPublishesRetry
  \/ JobRetryCheck
  \/ JobStarts

\* The retry loop of one job.
SpecRetry == InitRetry /\ [][NextRetry]_vars

\* The retry loop with both queues delivering their messages.
SpecRetryFair ==
  /\ SpecRetry
  /\ WF_vars(ScaleUpPublishesRetry)
  /\ WF_vars(JobRetryCheck)

\* what a job can be upstream when its retry message is checked
JobStatuses == {"queued", "in_progress", "completed"}

\* Up to MaxRecords messages of as many jobs on the retry queue, each with
\* counter 0 or 1, the jobs in any status upstream.
InitRetryBatch ==
  /\ config = [configured |-> TRUE, enable |-> TRUE, maxAttempts |-> 2,
               delayInSeconds |-> 10, delayBackoff |-> 2]
  /\ \E n \in 1..MaxRecords :
       \E retryCounter \in [1..n -> 0..1], status \in [1..n -> JobStatuses] :
         retry = [IdleRetry EXCEPT !.jobStatus = status,
                                   !.retryQueue = { JobMessage(id, retryCounter[id])
                                                    : id \in 1..n }]
  /\ instances = {}
  /\ ghRunners = {}
  /\ nextId = 1
  /\ secrets = {}
  /\ started = 0
  /\ run = [i \in Procs |-> IdleRun]
  /\ down = IdleDown
  /\ pool = IdlePool

\* The retry check over batches of several records.
SpecRetryBatch == InitRetryBatch /\ [][NextRetry]_vars

\* ----------------------------------------------- repeated scale-down runs
\* the configuration of the repeated invocations
CycleConfigs ==
  [idleCount : {0}, evictionStrategy : {"oldest_first"}, minimumRunningTime : {1},
   bootTime : {2}]

\* the times of the invocations: at the earlier one no instance is past
\* its boot time, at the later one every instance is
CycleNows == {MaxCycle + 1, MaxCycle + 3}

\* the instances the invocations may start from: an instance of the JIT
\* path (with runner id tag) and one of the registration-token path
\* (without) whose runner has not registered, and an orphan-tagged
\* instance and an untagged one whose runner is offline and busy
CycleKinds ==
  { [tagged |-> TRUE, orphan |-> FALSE, upstream |-> "absent"],
    [tagged |-> FALSE, orphan |-> FALSE, upstream |-> "absent"],
    [tagged |-> TRUE, orphan |-> TRUE, upstream |-> "offline-busy"],
    [tagged |-> TRUE, orphan |-> FALSE, upstream |-> "offline-busy"] }

\* Up to MaxCycle instances of these kinds.
InitCycle ==
  /\ config \in CycleConfigs
  /\ \E n \in 0..MaxCycle :
       \E kind \in [1..n -> CycleKinds] :
         /\ instances = { DownInstance(k, kind[k].tagged, kind[k].orphan) : k \in 1..n }
         /\ ghRunners = { GhRunner(k, <<"A">>, kind[k].upstream) :
                            k \in { j \in 1..n : kind[j].upstream # "absent" } }
         /\ nextId = n + 1
  /\ secrets = {}
  /\ started = 0
  /\ run = [i \in Procs |-> IdleRun]
  /\ down = IdleDown
  /\ pool = IdlePool
  /\ retry = IdleRetry

\* the scheduler invokes scaleDownHandler again when the invocation before
\* has returned (spec 4.3: the scheduler serialises invocations); time does
\* not run backwards
ScheduledScaleDown ==
  ScaleDownHandlerFrom({"idle", "done"}, { t \in CycleNows : t >= down.now })

\* the runner of an instance that had none upstream registers and comes
\* online (the runner service started from the configuration of
\* scale-up.ts:498-520)
RunnerRegisters ==
  /\ \E x \in instances :
       /\ \A g \in ghRunners : g.name # x.id
       /\ ghRunners' = ghRunners \cup {GhRunner(x.id, x.owner, "online-idle")}
  /\ UNCHANGED <<config, instances, nextId, secrets, started, run, down, pool, retry>>

NextCycle ==
  \/ ScheduledScaleDown
  \/ TerminateOrphanIn(AnyAnswer)
  \/ ListRunners(AnyAnswer)
  \/ EvaluateRunner(AnyAnswer)
  \/ RunnerRegisters

\* Scale-down invoked again and again while runners register, with every
\* answer of the cloud and of the upstream service.
SpecCycle == InitCycle /\ [][NextCycle]_vars

NextCycleOk ==
  \/ ScheduledScaleDown
  \/ TerminateOrphanIn(AllSucceed)
  \/ ListRunners(AllSucceed)
  \/ EvaluateRunner(AllSucceed)
  \/ RunnerRegisters

\* Scale-down invoked again and again with every call succeeding, each
\* invocation started by the scheduler and run to its end.
SpecCycleFair ==
  /\ InitCycle /\ [][NextCycleOk]_vars
  /\ WF_vars(ScheduledScaleDown)
  /\ WF_vars(TerminateOrphanIn(AllSucceed))
  /\ WF_vars(ListRunners(AllSucceed))
  /\ WF_vars(EvaluateRunner(AllSucceed))

\* --------------------------------------------------------------- all loops
\* The configuration of the five functions of one deployment: scale-up
\* (scale-up.ts:288-306), scale-down (scale-down.ts:124, 178-179, 311),
\* pool (pool.ts:29-46) and the retry layer (job-retry.test.ts:99-106).
LoopConfigs ==
  [orgLevel : {TRUE}, ephemeral : {TRUE}, queuedCheck : {FALSE}, maxRunners : {Unlimited},
   jit : {TRUE}, idleCount : {0}, evictionStrategy : {"oldest_first"},
   minimumRunningTime : {1}, bootTime : {2}, configured : {TRUE}, enable : {TRUE},
   maxAttempts : {1}, delayInSeconds : {10}, delayBackoff : {2}]

\* the batches of the scale-up invocation: one queued job of an organisation
LoopEvents == EventsOver(CreateKinds, 1)

\* the time at which the scale-down invocation runs: late enough for the
\* boot time of every instance of the run to be over
LoopNow == 3 * MaxLoop + 6

\* the instances the run may start from: an orphan whose runner is back
\* online, an orphan whose runner has gone offline, an instance that never
\* registered upstream and an instance with an idle runner
LoopKinds ==
  { [tagged |-> TRUE, orphan |-> TRUE, upstream |-> "online-idle"],
    [tagged |-> TRUE, orphan |-> TRUE, upstream |-> "offline-busy"],
    [tagged |-> FALSE, orphan |-> FALSE, upstream |-> "absent"],
    [tagged |-> TRUE, orphan |-> FALSE, upstream |-> "online-idle"] }

\* Up to MaxLoop running instances of these kinds and the message of one
\* job on the scale-up queue.
InitLoops ==
  /\ config \in LoopConfigs
  /\ \E n \in 0..MaxLoop :
       \E kind \in [1..n -> LoopKinds] :
         /\ instances = { [DownInstance(k, kind[k].tagged, kind[k].orphan)
                             EXCEPT !.state = "running"] : k \in 1..n }
         /\ ghRunners = { GhRunner(k, <<"A">>, kind[k].upstream) :
                            k \in { j \in 1..n : kind[j].upstream # "absent" } }
         /\ nextId = n + 1
  /\ secrets = {}
  /\ started = 0
  /\ run = [i \in Procs |-> IdleRun]
  /\ down = IdleDown
  /\ pool = IdlePool
  /\ retry = [IdleRetry EXCEPT !.scaleUpQueue = {RetryMessage(NoCounter)}]

NextLoops ==
  \/ started < 1 /\ \E records \in LoopEvents : ScaleUpHandler(1, records, Reliable)
  \/ ScopeCount(1, Reliable)
  \/ ScopeCreate(1, Reliable)
  \/ ScaleUpReturn(1)
  \/ ScaleDownHandlerAt({LoopNow})
  \/ TerminateOrphan
  \/ ListRunners(NoOutage)
  \/ EvaluateRunner(NoOutage)
  \/ AdjustPool(Reliable)
  \/ ScaleUpPublishesRetry
  \/ JobRetryCheck
  \/ JobStarts

\* One invocation of scale-up, of scale-down and of the pool function and
\* the retry loop of one job, interleaved in every order over one inventory,
\* the cloud and the upstream service answering every call.
SpecLoops == InitLoops /\ [][NextLoops]_vars

NextTicks ==
  \/ ScaleDownHandlerAt({LoopNow})
  \/ TerminateOrphan
  \/ ListRunners(AnyAnswer)
  \/ EvaluateRunner(AnyAnswer)
  \/ AdjustPool(Faulty)

\* The two functions the scheduler invokes, scale-down and pool, one
\* invocation of each over one inventory, with every answer of the cloud
\* and of the upstream service, failures included.
SpecTicks == InitLoops /\ [][NextTicks]_vars

\* ------------------------------------- scale-down while instances are created
\* the configuration of scale-up, scale-down and pool of one deployment,
\* with every idle count and eviction strategy of DownConfigs and a
\* minimum running time below and above the boot time
YoungConfigs ==
  [orgLevel : {TRUE}, ephemeral : {TRUE}, queuedCheck : {FALSE}, maxRunners : {Unlimited},
   jit : {TRUE}, idleCount : {0, 1}, evictionStrategy : {"oldest_first", "newest_first"},
   minimumRunningTime : {1, 3}, bootTime : {2}, configured : {FALSE}, enable : {FALSE},
   maxAttempts : {NoMaxAttempts}, delayInSeconds : {10}, delayBackoff : {2}]

\* the times of the scale-down invocation: one at which every instance is
\* below both thresholds, and one at which the instances of the start are
\* past them and the instances created last are not
YoungNows == {1, MaxLoop + 3}

\* the instances the run may start from: without orphan tag and with the
\* runner in every upstream state, or orphan-tagged with the runner online
YoungKinds ==
  [tagged : {TRUE}, orphan : {FALSE}, upstream : UpstreamStates]
    \cup {[tagged |-> TRUE, orphan |-> TRUE, upstream |-> "online-idle"]}

\* Up to MaxLoop running instances of these kinds.
InitYoung ==
  /\ config \in YoungConfigs
  /\ \E n \in 0..MaxLoop :
       \E kind \in [1..n -> YoungKinds] :
         /\ instances = { [DownInstance(k, kind[k].tagged, kind[k].orphan)
                             EXCEPT !.state = "running"] : k \in 1..n }
         /\ ghRunners = { GhRunner(k, <<"A">>, kind[k].upstream) :
                            k \in { j \in 1..n : kind[j].upstream # "absent" } }
         /\ nextId = n + 1
  /\ secrets = {}
  /\ started = 0
  /\ run = [i \in Procs |-> IdleRun]
  /\ down = IdleDown
  /\ pool = IdlePool
  /\ retry = IdleRetry

NextYoung ==
  \/ started < 1 /\ \E records \in LoopEvents : ScaleUpHandler(1, records, Reliable)
  \/ ScopeCount(1, Reliable)
  \/ ScopeCreate(1, Reliable)
  \/ ScaleUpReturn(1)
  \/ AdjustPool(Reliable)
  \/ ScaleDownHandlerAt(YoungNows)
  \/ TerminateOrphanIn(NoOutage)
  \/ ListRunners(NoOutage)
  \/ EvaluateRunner(NoOutage)

\* One scale-down invocation while one scale-up invocation and one pool
\* invocation create instances in the same inventory.
SpecYoung == InitYoung /\ [][NextYoung]_vars

\* ------------------------------------------------------------- properties
Started(i) == run[i].pc # "idle"

LiveOf(key) == Cardinality(ListEC2Runners(RunnerType(config.orgLevel), key))

\* the messages of the sorted batch that the validation pass groups under key
GroupedOf(i, key) ==
  SelectSeq(run[i].sqsMessages,
            LAMBDA m : /\ ~(config.ephemeral /\ m.eventType # "workflow_job")
                       /\ ~(config.orgLevel /\ m.repoOwnerType # "Organization")
                       /\ key = IF config.orgLevel THEN <<m.repositoryOwner>>
                                ELSE <<m.repositoryOwner, m.repositoryName>>)

\* the grouped messages of key whose job is queued (all of them without the check)
SurvivingOf(i, key) ==
  SelectSeq(GroupedOf(i, key), LAMBDA m : config.queuedCheck => m.jobStatus = "queued")

Range(s) == { s[p] : p \in 1..Len(s) }

\* C1 (as stated): for every owning scope, when max-runners is not -1, the
\* number of live managed instances of the scope never exceeds max-runners,
\* under any interleaving of concurrent scale-up invocations.
C1_NeverExceedsMax ==
  config.maxRunners # Unlimited =>
    \A x \in instances : LiveOf(x.owner) <= config.maxRunners

\* C1 (amended): a bulk-create of a scale-up invocation never raises the live
\* count of its scope above max-runners, provided the live count has not
\* grown since that invocation listed the scope.
C1_CreateWithinBudget ==
  [][\A i \in Procs :
       (run[i].pc = "create" /\ run'[i].pc # "create" /\ config.maxRunners # Unlimited) =>
         LET key == run[i].groups[run[i].gi].key
             before == Cardinality({ x \in instances : x.owner = key })
             after == Cardinality({ x \in instances' : x.owner = key })
         IN before <= run[i].currentRunners =>
              (after <= config.maxRunners \/ after <= before)]_vars

\* C1 witness: a capped invocation has created instances and its scope is
\* exactly at max-runners.
C1_Witness ==
  \E i \in Procs :
    /\ config.maxRunners # Unlimited
    /\ \E c \in Range(run[i].fleetCalls) :
         c.got # {} /\ LiveOf(c.owner) = config.maxRunners

\* C2 (as stated): with max-runners set, the count passed to the bulk-create
\* is min(want, max(0, max-runners - current)) and no bulk-create is issued
\* when that value is 0, for every value of current.
C2_FleetCountIsCappedWant ==
  config.maxRunners # Unlimited =>
    \A i \in Procs : \A c \in Range(run[i].fleetCalls) :
      /\ c.numberOfRunners = Min(c.scaleUp, Max(0, config.maxRunners - c.currentRunners))
      /\ c.numberOfRunners # 0

C4_NotQueuedNeverRejected ==
  config.queuedCheck =>
    \A i \in Procs : \A m \in Range(run[i].sqsMessages) :
      m.jobStatus # "queued" => m.messageId \notin Range(run[i].invalidMessages)

C6_RejectedAreOfBatch ==
  \A i \in Procs :
    LET ids == { run[i].records[p].messageId : p \in 1..Len(run[i].records) }
    IN /\ Range(run[i].invalidMessages) \subseteq ids
       /\ Range(run[i].batchItemFailures) \subseteq ids

\* C6 witness: a handler has returned a non-empty batchItemFailures list
\* that holds a capped message.
C6_Witness ==
  \E i \in Procs :
    /\ run[i].pc = "done"
    /\ run[i].batchItemFailures # <<>>
    /\ run[i].capLog # <<>>
    /\ \E e \in Range(run[i].capLog) :
         e.rejected # <<>> /\ Range(e.rejected) \subseteq Range(run[i].batchItemFailures)

\* C7: in ephemeral mode every message whose event kind is not workflow_job
\* is on the reject list, is in no scope group, counts toward no
\* bulk-create and causes no upstream client to be created; a batch of such
\* messages only returns all its message ids and issues no bulk-create.
C7_EphemeralRejectsOtherEvents ==
  config.ephemeral =>
    \A i \in Procs :
      LET msgs == run[i].sqsMessages
          other == { m \in Range(msgs) : m.eventType # "workflow_job" }
          jobs(key) == { m \in Range(msgs) \ other :
                           key = IF config.orgLevel THEN <<m.repositoryOwner>>
                                 ELSE <<m.repositoryOwner, m.repositoryName>> }
      IN /\ \A m \in other :
              /\ m.messageId \in Range(run[i].invalidMessages)
              /\ \A g \in Range(run[i].groups) : m \notin Range(g.messages)
         /\ \A key \in Range(run[i].clients) : jobs(key) # {}
         /\ \A c \in Range(run[i].fleetCalls) : c.numberOfRunners <= Cardinality(jobs(c.owner))
         /\ (Started(i) /\ other = Range(msgs)) =>
              /\ run[i].invalidMessages = MessageIds(msgs)
              /\ run[i].clients = <<>>
              /\ run[i].fleetCalls = <<>>
              /\ run[i].pc = "done" =>
                   run[i].outcome = "ok" /\ run[i].batchItemFailures = MessageIds(msgs)

\* C7 witness: an ephemeral invocation over two check_run messages has
\* returned both message ids.
C7_Witness ==
  \E i \in Procs :
    /\ config.ephemeral
    /\ run[i].pc = "done"
    /\ Len(run[i].sqsMessages) = 2
    /\ \A m \in Range(run[i].sqsMessages) : m.eventType = "check_run"
    /\ run[i].batchItemFailures = <<1, 2>>

\* C8: in org mode a message that passes the event-kind check and whose
\* owner kind is not Organization is skipped: it is not on the reject list,
\* it is in no group and counts toward no bulk-create, and the validation
\* pass gives the result it gives for the batch without that message.
C8_OrgModeSkipsOtherOwners ==
  config.orgLevel =>
    \A i \in Procs :
      LET msgs == run[i].sqsMessages
          skipped == { m \in Range(msgs) :
                         /\ ~(config.ephemeral /\ m.eventType # "workflow_job")
                         /\ m.repoOwnerType # "Organization" }
      IN /\ \A m \in skipped :
              /\ m.messageId \notin Range(run[i].invalidMessages)
              /\ \A g \in Range(run[i].groups) :
                   m \notin Range(g.messages) /\ g.key # <<m.repositoryOwner>>
              /\ \A c \in Range(run[i].fleetCalls) : c.owner # <<m.repositoryOwner>>
              /\ <<m.repositoryOwner>> \notin Range(run[i].clients)
         /\ ValidationPass(msgs, config, <<>>, <<>>, NoKey) =
              ValidationPass(SelectSeq(msgs, LAMBDA m : m \notin skipped), config, <<>>, <<>>,
                             NoKey)

\* C8 witness: an org-mode invocation has created instances for a batch that
\* also held a message of a User owner.
C8_Witness ==
  \E i \in Procs :
    /\ config.orgLevel
    /\ run[i].outcome = "ok"
    /\ \E m \in Range(run[i].sqsMessages) : m.repoOwnerType = "User"
    /\ \E c \in Range(run[i].fleetCalls) : c.got # {}

\* C9: with max-runners = -1 no list_instances call is made and the
\* bulk-create count of each scope is the number of its surviving messages.
C9_UnlimitedListsNothing ==
  config.maxRunners = Unlimited =>
    \A i \in Procs :
      /\ run[i].listCalls = <<>>
      /\ \A c \in Range(run[i].fleetCalls) :
           c.numberOfRunners = Len(SurvivingOf(i, c.owner))
      /\ run[i].outcome = "ok" =>
           \A g \in Range(run[i].groups) :
             Len(SurvivingOf(i, g.key)) > 0 =>
               Cardinality({ p \in 1..Len(run[i].fleetCalls) :
                               run[i].fleetCalls[p].owner = g.key }) = 1

\* C9 witness: an unlimited invocation has returned after a bulk-create for
\* three messages of one scope.
C9_Witness ==
  \E i \in Procs :
    /\ config.maxRunners = Unlimited
    /\ run[i].outcome = "ok"
    /\ \E c \in Range(run[i].fleetCalls) : c.numberOfRunners = 3

\* C10: the handler hands scaleUp the batch in ascending retry-counter order,
\* a missing counter counting as 0 and equal counters keeping the delivery
\* order, and the messages of each scope are processed in that order.
C10_SortedByRetryCounter ==
  \A i \in Procs :
    LET msgs == run[i].sqsMessages
        counter(m) == IF m.retryCounter = NoCounter THEN 0 ELSE m.retryCounter
    IN /\ Range(msgs) = { m \in Range(run[i].records) : m.eventSource = "aws:sqs" }
       /\ Len(msgs) = Cardinality(Range(msgs))
       /\ \A p, q \in 1..Len(msgs) :
            p < q => \/ counter(msgs[p]) < counter(msgs[q])
                     \/ /\ counter(msgs[p]) = counter(msgs[q])
                        /\ msgs[p].messageId < msgs[q].messageId
       /\ \A g \in Range(run[i].groups) :
            LET scope == GroupedOf(i, g.key)
            IN /\ Len(g.messages) <= Len(scope)
               /\ g.messages = SubSeq(scope, Len(scope) - Len(g.messages) + 1, Len(scope))

\* C10 witness: a batch delivered as (counter 1, counter 0, no counter) has
\* been sorted to (counter 0, no counter, counter 1).
C10_Witness ==
  \E i \in Procs :
    /\ Len(run[i].records) = 3
    /\ run[i].pc = "done"
    /\ run[i].records[1].retryCounter = 1
    /\ run[i].records[2].retryCounter = 0
    /\ run[i].records[3].retryCounter = NoCounter
    /\ MessageIds(run[i].sqsMessages) = <<2, 3, 1>>

LastFleetCall(i) == run[i].fleetCalls[Len(run[i].fleetCalls)]

C13_UpstreamFailureRejectsScope ==
  \A i \in Procs :
    (run[i].pc = "done" /\ run[i].failure.call \in {"client", "job", "token", "jit"}) =>
      Range(MessageIds(GroupedOf(i, run[i].failure.key)))
        \subseteq Range(run[i].batchItemFailures)

\* C14: createRunner classifies the bulk-create result: zero instances with
\* a retriable error code raises a ScaleError; zero instances with no
\* retriable code raises a plain error; one or more instances never
\* raises, whatever the error codes; in both failing cases no secret is
\* written.
C14_CreateRunnerClassifies ==
  [][\A i \in Procs :
       (run[i].pc = "create" /\ run'[i].pc # "create") =>
         LET c == run'[i].fleetCalls[Len(run'[i].fleetCalls)]
             retriable == { "UnfulfillableCapacity", "MaxSpotInstanceCountExceeded",
                            "TargetCapacityLimitExceededException", "RequestLimitExceeded",
                            "ResourceLimitExceeded", "MaxSpotFleetRequestCountExceeded",
                            "InsufficientInstanceCapacity" }
         IN /\ Len(run'[i].fleetCalls) = Len(run[i].fleetCalls) + 1
            /\ (c.got = {} /\ c.errors \cap retriable # {}) =>
                 /\ run'[i].pc = "done" /\ run'[i].outcome = "ScaleError"
                 /\ secrets' = secrets /\ run'[i].ops = run[i].ops
            /\ (c.got = {} /\ c.errors \cap retriable = {}) =>
                 /\ run'[i].pc = "done" /\ run'[i].outcome = "Error"
                 /\ secrets' = secrets /\ run'[i].ops = run[i].ops
            /\ c.got # {} =>
                 /\ run'[i].outcome # "ScaleError"
                 /\ run'[i].ops # run[i].ops
                 /\ run'[i].pc = "done" => run'[i].failure.call # "none"]_vars

\* C14 witness: one invocation has had a bulk-create that returned an
\* instance along with a retriable code and went on, and then a bulk-create
\* that returned nothing with a retriable and another code.
C14_Witness ==
  \E i \in Procs :
    /\ run[i].outcome = "ScaleError"
    /\ Len(run[i].fleetCalls) = 2
    /\ run[i].fleetCalls[1].got # {}
    /\ "UnfulfillableCapacity" \in run[i].fleetCalls[1].errors
    /\ run[i].fleetCalls[1].got \subseteq secrets
    /\ run[i].fleetCalls[2].got = {}
    /\ run[i].fleetCalls[2].errors = {"UnfulfillableCapacity", "NonMappedError"}

\* C15 (as stated): for every instance returned by a bulk-create of a
\* scale-up invocation a registration secret is written at its path before
\* the invocation ends, for every outcome of the upstream calls made after
\* the bulk-create (the secret store itself accepting every write).
C15_EveryInstanceGetsSecret ==
  \A i \in Procs :
    (run[i].pc = "done" /\ run[i].failure.call # "ssm") =>
      \A c \in Range(run[i].fleetCalls) : c.got \subseteq secrets

\* C16 (as stated): in the JIT path every created instance whose JIT blob
\* has been stored carries the upstream-runner-id tag holding the runner id
\* returned by the JIT generator for that instance.
C16_StoredBlobImpliesTag ==
  IsJitPath(config) =>
    \A x \in instances : x.id \in secrets => x.runnerId = 1000 + x.id

\* C16 (amended): in the JIT path, for every instance whose JIT blob has been
\* stored, the tag call with the runner id returned by the JIT generator for
\* that instance was made before the secret was written, and the instance
\* carries that runner id exactly when the tag call succeeded; a failed tag
\* call leaves the instance without the tag and does not stop the secret
\* from being stored.
C16_TagAttemptedBeforeSecret ==
  IsJitPath(config) =>
    \A i \in Procs : \A p \in 1..Len(run[i].ops) :
      LET ops == run[i].ops IN
      (ops[p].op = "put" /\ ops[p].ok) =>
        \E q \in 1..(p - 1) :
          /\ ops[q].op = "tag" /\ ops[q].id = ops[p].id
          /\ \E j \in 1..(q - 1) :
               /\ ops[j].op = "jit" /\ ops[j].ok
               /\ ops[j].id = ops[p].id /\ ops[j].value = ops[q].value
          /\ ops[p].id \in secrets
          /\ \A x \in instances :
               x.id = ops[p].id =>
                 x.runnerId = IF ops[q].ok THEN ops[q].value ELSE NoRunnerId

\* C16 witness: a JIT invocation has stored the blobs of two instances, one
\* tagged with its runner id and one whose tag call failed.
C16_Witness ==
  /\ IsJitPath(config)
  /\ \E x, y \in instances :
       /\ {x.id, y.id} \subseteq secrets
       /\ x.runnerId = JitRunnerId(x.id)
       /\ y.runnerId = NoRunnerId

\* C17 (as stated): every instance created by the bulk-create call carries,
\* in the tag specification of that same call, the application-marker,
\* environment, Type, owner and creator tags.
C17_TagSpecHasEnvironment ==
  \A i \in Procs : \A c \in Range(run[i].fleetCalls) :
    c.got # {} =>
      {"ghr:Application", "ghr:environment", "Type", "Owner", "ghr:created_by"}
        \subseteq DOMAIN c.tags

\* C17 (amended): every instance created by the bulk-create call carries, in
\* the tag specification of that same call, the application-marker, Type,
\* owner and creator tags, with the runner type and the scope of the call;
\* the environment tag is not part of the tag specification of the call.
C17_TagSpecOfCall ==
  \A i \in Procs : \A c \in Range(run[i].fleetCalls) :
    c.got # {} =>
      /\ DOMAIN c.tags = {"ghr:Application", "Type", "Owner", "ghr:created_by"}
      /\ c.tags["ghr:Application"] = "github-action-runner"
      /\ c.tags["Type"] = (IF config.orgLevel THEN "Org" ELSE "Repo")
      /\ c.tags["Owner"] = c.owner
      /\ c.tags["ghr:created_by"] \in {"scale-up-lambda", "pool-lambda"}
      /\ \A x \in instances :
           x.id \in c.got =>
             /\ x.type = c.tags["Type"] /\ x.owner = c.tags["Owner"]
             /\ x.createdBy = c.tags["ghr:created_by"]

\* C17 witness: two scopes of one batch have each got an instance that is
\* still live.
C17_Witness ==
  \E i \in Procs :
    /\ Len(run[i].fleetCalls) = 2
    /\ \A c \in Range(run[i].fleetCalls) :
         c.got # {} /\ \E x \in instances : x.id \in c.got /\ x.owner = c.owner
    /\ run[i].fleetCalls[1].owner # run[i].fleetCalls[2].owner

\* C18 (as stated): the creator tag identifies the caller and not the
\* requested count: every instance created by the scale-up dispatcher is
\* tagged creator = scale-up, for every number of instances requested.
C18_CreatorIsCaller ==
  \A i \in Procs : \A c \in Range(run[i].fleetCalls) :
    /\ c.got # {} => c.tags["ghr:created_by"] = "scale-up-lambda"
    /\ \A x \in instances : x.id \in c.got => x.createdBy = "scale-up-lambda"

\* the calls of the invocation so far
DownCalls == { down.log[p] : p \in 1..Len(down.log) }

\* the ops by which Phase 2 evaluates an instance
EvaluationOps ==
  {"keep-idle", "keep-busy", "keep-young", "booting", "busy-lookup", "deregister",
   "terminate", "tag"}

\* C19: in Phase 1 of scale-down every orphan-listed instance whose upstream
\* lookup (if one is made) is answered gets this decision: without a runner
\* id tag, with a 404 answer, or with an answer of offline and busy, the
\* terminate call is issued and no untag call; with any other answer the
\* untag call is issued, the instance stays, and it loses the orphan tag
\* when the call succeeds.
C19_OrphanDecision ==
  [][down.pc = "orphans" =>
       LET runner == down.orphanRunners[down.oi]
           answer == IF \E g \in ghRunners : g.id = runner.runnerId
                     THEN CHOOSE g \in ghRunners : g.id = runner.runnerId
                     ELSE NotFound
           call == down'.log[Len(down'.log)]
       IN call.op # "lookup" =>
            IF \/ runner.runnerId = NoRunnerId
               \/ answer = NotFound
               \/ (answer.status = "offline" /\ answer.busy = TRUE)
            THEN /\ call.op = "terminate"
                 /\ call.ok => \A x \in instances' : x.id # runner.id
                 /\ \A x \in instances' : x.id = runner.id => x.orphan
            ELSE /\ call.op = "untag"
                 /\ \E x \in instances' : x.id = runner.id /\ (call.ok => ~x.orphan)]_vars

\* Phase 1 has terminated an orphan whose runner the upstream service
\* reports offline and busy, and has cleared the tag of another whose
\* runner is online or idle.
C19_Witness ==
  /\ \E c \in DownCalls :
        /\ c.phase = 1 /\ c.op = "terminate" /\ c.ok
        /\ c.listed.runnerId # NoRunnerId /\ c.state # NotFound
  /\ \E c \in DownCalls :
        /\ c.phase = 1 /\ c.op = "untag" /\ c.ok
        /\ \A x \in instances : x.id = c.id => ~x.orphan

NewDownCalls == SubSeq(down'.log, Len(down.log) + 1, Len(down'.log))

Evaluated == { down.runners[p] : p \in 1..Len(down.runners) }

\* the k oldest and the k newest of the evaluated instances
Oldest(k) ==
  { r.id : r \in { x \in Evaluated :
                     Cardinality({ y \in Evaluated : y.launchTime < x.launchTime }) < k } }
Newest(k) ==
  { r.id : r \in { x \in Evaluated :
                     Cardinality({ y \in Evaluated : y.launchTime > x.launchTime }) < k } }

\* the instances a finished pass kept for the idle quota and those it
\* de-registered and then terminated
KeptIdle == { c.id : c \in { d \in DownCalls : d.phase = 2 /\ d.op = "keep-idle" } }
Removed ==
  { c.id : c \in { d \in DownCalls :
                     /\ d.phase = 2 /\ d.op = "terminate" /\ d.ok
                     /\ \E e \in DownCalls : e.id = d.id /\ e.op = "deregister" /\ e.ok } }

\* a finished pass with strategy oldest_first and idle quota 2 over four
\* instances of one owner, all matched, past the minimum running time and
\* idle upstream, in which every call succeeded
QuotaExceededPass ==
  /\ down.pc = "done" /\ down.outcome = "ok"
  /\ config.evictionStrategy = "oldest_first" /\ config.idleCount = 2
  /\ Cardinality(Evaluated) = 4
  /\ \A x, y \in Evaluated : x.owner = y.owner
  /\ \A x \in Evaluated : x.launchTime + config.minimumRunningTime < down.now
  /\ \A c \in DownCalls :
        c.phase = 2 /\ c.ok /\ c.state # NotFound /\ ~c.state.busy /\ c.op # "keep-busy"

\* C22 as stated: in such a pass the two oldest instances are kept and the
\* two newest are de-registered and terminated.
C22_OldestKept ==
  QuotaExceededPass =>
    /\ KeptIdle = Oldest(2)
    /\ Removed = Newest(2)

\* C22 amended: in such a pass the two newest instances are kept (they
\* consume the quota) and the two oldest are de-registered, then
\* terminated, and are gone from the inventory.
C22_NewestKept ==
  QuotaExceededPass =>
    /\ KeptIdle = Newest(2)
    /\ Removed = Oldest(2)
    /\ { x.id : x \in instances } = Newest(2)
    /\ { g.name : g \in ghRunners } = Newest(2)

\* such a pass has finished
C22_Witness ==
  /\ QuotaExceededPass
  /\ Cardinality(KeptIdle) = 2
  /\ Cardinality(Removed) = 2

\* the evaluated instances past the minimum running time whose matched
\* runner was idle upstream throughout the pass
IdleDuringPass ==
  { c.id : c \in { d \in DownCalls :
                     /\ d.phase = 2 /\ d.state # NotFound /\ ~d.state.busy
                     /\ d.op # "keep-busy"
                     /\ d.listed.launchTime + config.minimumRunningTime < down.now } }

\* the instances that are left and idle upstream
IdleLeft == { x \in instances : \E g \in ghRunners : g.name = x.id /\ ~g.busy }

\* C23: after a finished pass with idle quota q at least min(q, k) idle
\* instances are left, k being the number of matched instances past the
\* minimum running time that were idle upstream during the pass.
C23_QuotaPreservesIdle ==
  (down.pc = "done" /\ down.outcome = "ok") =>
    Cardinality(IdleLeft) >= Min(config.idleCount, Cardinality(IdleDuringPass))

C25_OrphanTagSetAndClearedByScaleDown ==
  [][ /\ \A x \in instances : \A y \in instances' :
          (x.id = y.id /\ x.orphan # y.orphan) =>
            /\ run' = run /\ pool' = pool /\ retry' = retry
            /\ Len(NewDownCalls) = 1
            /\ NewDownCalls[1].id = x.id /\ NewDownCalls[1].ok
            /\ IF y.orphan
               THEN down.pc = "evaluate" /\ NewDownCalls[1].phase = 2
                    /\ NewDownCalls[1].op = "tag"
               ELSE down.pc = "orphans" /\ NewDownCalls[1].phase = 1
                    /\ NewDownCalls[1].op = "untag"
      /\ \A y \in instances' : (\A x \in instances : x.id # y.id) => ~y.orphan ]_vars

\* C25 witness: scale-up and the pool function have each created an
\* instance and tagged it with its runner id, the last-chance check has
\* cleared the orphan tag of an instance and Phase 2 has set the orphan tag
\* of an instance that scale-up or the pool function created.
C25_Witness ==
  /\ run[1].pc = "done" /\ pool.pc = "done" /\ retry.published # <<>>
  /\ \E p \in 1..Len(run[1].ops) : run[1].ops[p].op = "tag" /\ run[1].ops[p].ok
  /\ pool.calls # <<>> /\ pool.outcome = "ok"
  /\ \E p, q \in 1..Len(down.log) :
       /\ down.log[p].op = "untag" /\ down.log[p].ok
       /\ down.log[q].op = "tag" /\ down.log[q].ok /\ down.log[q].id > MaxLoop
       /\ \E y \in instances : y.id = down.log[q].id /\ y.orphan /\ y.runnerId # NoRunnerId

\* C26: when scaleDownHandler or adjustPool has ended, it has returned
\* normally, whatever scaleDown or the pool adjust operation came to.
C26_HandlersReturnNormally ==
  /\ down.pc = "done" => down.returned = "normal"
  /\ pool.pc = "done" => pool.returned = "normal"

\* C26 witness: a scale-down invocation has ended on an error of scaleDown
\* and a pool invocation on an error of the adjust operation.
C26_Witness ==
  /\ down.pc = "done" /\ down.outcome = "error" /\ down.returned = "normal"
  /\ pool.pc = "done" /\ pool.outcome # "ok" /\ pool.returned = "normal"

\* C27: a pool invocation whose lookups succeed counts exactly the running
\* instances of its owner that are online and not busy upstream, or absent
\* upstream and not past the boot time; with pool size N it calls
\* createRunners once with numberOfRunners = N - pool when that is
\* positive, and makes no call and creates nothing otherwise.
C27_PoolCountAndTopUp ==
  [][(pool.pc = "idle" /\ pool'.pc = "done" /\ pool'.outcome # "lookup-error") =>
       LET running == { x \in instances :
                          x.state = "running" /\ x.type = "Org" /\ x.owner = PoolOwner }
           Present(x) == \E g \in ghRunners : g.owner = PoolOwner /\ g.name = x.id
           Idle(x) == \E g \in ghRunners :
                        /\ g.owner = PoolOwner /\ g.name = x.id
                        /\ g.status = "online" /\ g.busy = FALSE
           inPool == { x \in running :
                         \/ Idle(x)
                         \/ (~Present(x) /\ ~(x.launchTime + config.bootTime < pool'.now)) }
           N == pool'.poolSize
       IN /\ pool'.numberOfRunnersInPool = Cardinality(inPool)
          /\ IF N - Cardinality(inPool) > 0
             THEN pool'.calls = <<N - Cardinality(inPool)>>
             ELSE /\ pool'.calls = <<>>
                  /\ instances' = instances
                  /\ secrets' = secrets]_vars

\* The pool invocation counted some but not all running instances of its
\* owner and topped the pool up.
C27_Witness ==
  /\ pool.pc = "done" /\ pool.outcome = "ok"
  /\ pool.numberOfRunnersInPool = 1
  /\ pool.calls = <<pool.poolSize - 1>>
  /\ Cardinality({ x \in instances : x.owner = PoolOwner /\ x.state = "running"
                                       /\ x.id < nextId - pool.calls[1] }) > 1

\* the calls of publishMessage the step from this state to the next makes
NewPublished == SubSeq(retry'.published, Len(retry.published) + 1, Len(retry'.published))

\* C28: publishRetryMessage, called for a message, publishes exactly one
\* message, equal to the input but for its counter (retryCounter ?? -1) + 1,
\* when the configuration is present, retry is enabled, maxAttempts is set
\* and the new counter is below it; otherwise it publishes nothing.
C28_PublishRetryMessage ==
  [][\A m \in retry.scaleUpQueue : m \notin retry'.scaleUpQueue =>
       LET counter == IF m.retryCounter = NoCounter THEN 0 ELSE m.retryCounter + 1
       IN IF /\ config.configured /\ config.enable
             /\ config.maxAttempts # NoMaxAttempts /\ counter < config.maxAttempts
          THEN /\ Len(NewPublished) = 1
               /\ NewPublished[1].queue = "retry"
               /\ NewPublished[1].message = [m EXCEPT !.retryCounter = counter]
               /\ retry'.retryQueue = retry.retryQueue \cup {NewPublished[1].message}
          ELSE /\ NewPublished = <<>>
               /\ retry'.retryQueue = retry.retryQueue]_vars

\* A message has been republished with a counter above 0, and a later one
\* of the same job was dropped because maxAttempts was reached.
C28_Witness ==
  /\ config.enable /\ config.maxAttempts # NoMaxAttempts
  /\ \E p \in 1..Len(retry.published) :
        retry.published[p].queue = "retry" /\ retry.published[p].message.retryCounter > 0
  /\ retry.jobStatus[1] = "queued"
  /\ retry.retryQueue = {} /\ retry.scaleUpQueue = {}

\* a republish of a message with a counter k below maxAttempts - 1 while the
\* job is queued
RepublishOf(m) ==
  /\ m \in retry.scaleUpQueue /\ m \notin retry'.scaleUpQueue
  /\ m.retryCounter # NoCounter
  /\ config.configured /\ config.enable /\ config.maxAttempts # NoMaxAttempts
  /\ m.retryCounter < config.maxAttempts - 1
  /\ retry.jobStatus[1] = "queued"

\* C29 as stated: such a message is republished exactly once with delay
\* min(900, initialDelay * backoff^k), k being the incoming counter.
C29_DelayFromIncomingCounter ==
  [][\A m \in retry.scaleUpQueue : RepublishOf(m) =>
       /\ Len(NewPublished) = 1
       /\ NewPublished[1].delay =
            Min(900, config.delayInSeconds * Pow(config.delayBackoff, m.retryCounter))]_vars

\* C29 amended: such a message is republished exactly once with delay
\* min(900, initialDelay * backoff^(k + 1)), k + 1 being the counter of the
\* republished message.
C29_DelayFromNewCounter ==
  [][\A m \in retry.scaleUpQueue : RepublishOf(m) =>
       /\ Len(NewPublished) = 1
       /\ NewPublished[1].message.retryCounter = m.retryCounter + 1
       /\ NewPublished[1].delay =
            Min(900, config.delayInSeconds * Pow(config.delayBackoff, m.retryCounter + 1))]_vars

\* The message has come in with counter 0 and with counter 1 while the job
\* was queued, and has been republished with delays 20 and 40 seconds.
C29_Witness ==
  /\ retry.jobStatus[1] = "queued"
  /\ \E p \in 1..Len(retry.published) :
        /\ retry.published[p].queue = "retry"
        /\ retry.published[p].message.retryCounter = 2
        /\ retry.published[p].delay = 40
  /\ \E p \in 1..Len(retry.published) :
        /\ retry.published[p].queue = "retry"
        /\ retry.published[p].message.retryCounter = 1
        /\ retry.published[p].delay = 20

\* the republishes of the job so far, in order
Republishes == SelectSeq(retry.published, LAMBDA c : c.queue = "retry")

Republished(check) ==
  { p \in 1..Len(check.records) :
      \E c \in 1..Len(check.calls) :
        check.calls[c] = PublishMessage(check.records[p], "scale-up", 0) }

\* C31: after a jobRetryCheck invocation, a record's message has been
\* published to the scale-up queue exactly when the upstream job query of
\* that record succeeded and answered queued; a record whose query failed
\* has no publish call, the records after it are decided in the same way,
\* there is one call for each republished record and no other, and the
\* handler has returned normally.
C31_RepublishIffQueriedQueued ==
  retry.check # NoCheck =>
    /\ \A p \in 1..Len(retry.check.records) :
         p \in Republished(retry.check) <=> retry.check.answers[p] = "queued"
    /\ Len(retry.check.calls) = Cardinality(Republished(retry.check))
    /\ retry.check.returned = "normal"

\* C31 witness: a batch of three records in which the query of the first
\* failed, the second job was found queued and republished and the third
\* was found in another status.
C31_Witness ==
  /\ Len(retry.check.records) = 3
  /\ retry.check.answers[1] = "error"
  /\ retry.check.answers[2] = "queued" /\ 2 \in Republished(retry.check)
  /\ retry.check.answers[3] \in {"in_progress", "completed"}
  /\ retry.check.returned = "normal"

\* the retry counter of the message with this id in the batch of i, a
\* missing counter counting as 0
CounterOf(i, id) ==
  RetryOf(CHOOSE m \in Range(run[i].sqsMessages) : m.messageId = id)

\* C33: when the max-runners cap rejects messages of a scope, every
\* message of the scope it rejects has a retry counter less than or equal
\* to that of every message of the scope it keeps.
C33_CapKeepsMostRetried ==
  \A i \in Procs : \A e \in Range(run[i].capLog) :
    LET scope == Range(MessageIds(GroupedOf(i, e.key)))
    IN \A r \in Range(e.rejected) : \A k \in scope \ Range(e.rejected) :
         CounterOf(i, r) <= CounterOf(i, k)

\* C33 witness: a batch of one scope delivered with the most retried
\* message first; the cap has rejected a message with fewer retries and
\* kept the most retried one.
C33_Witness ==
  \E i \in Procs : \E e \in Range(run[i].capLog) :
    /\ run[i].pc = "done"
    /\ Len(run[i].records) = 3
    /\ RetryOf(run[i].records[1]) = 1
    /\ e.rejected # <<>>
    /\ run[i].records[1].messageId \in
         Range(MessageIds(GroupedOf(i, e.key))) \ Range(e.rejected)
    /\ \E r \in Range(e.rejected) : CounterOf(i, r) = 0

\* the instances the bulk-create calls of i returned for the scope key
CreatedFor(i, key) ==
  UNION { c.got : c \in { d \in Range(run[i].fleetCalls) : d.owner = key } }

\* the positions of the reject list of i that hold a message of the scope
RejectedOf(i, key) ==
  { p \in 1..Len(run[i].invalidMessages) :
      run[i].invalidMessages[p] \in Range(MessageIds(GroupedOf(i, key))) }

C38_RejectsAlwaysReported ==
  \A i \in Procs :
    run[i].pc = "done" =>
      Range(run[i].invalidMessages) \subseteq Range(run[i].batchItemFailures)

\* the last-chance lookups of the invocation that failed with another
\* error than 404
FailedLookups ==
  { c \in DownCalls : c.phase = 1 /\ c.op = "lookup" /\ ~c.ok }

\* C39: the step in which the last-chance lookup of an orphan-tagged
\* instance fails with another error than 404 changes no instance and
\* hands control to the listing of Phase 2; for the rest of the invocation
\* the instance is in the inventory as Phase 1 listed it, with no
\* terminate, untag, tag or delete call made for it, and the invocation,
\* once ended, has returned normally.
C39_FailedLookupLeavesInstance ==
  /\ [][ (down.pc = "orphans" /\ Len(NewDownCalls) = 1
          /\ NewDownCalls[1].op = "lookup" /\ ~NewDownCalls[1].ok) =>
           (instances' = instances /\ ghRunners' = ghRunners /\ down'.pc = "list") ]_vars
  /\ [](\A c \in FailedLookups :
          /\ c.listed \in instances
          /\ \A d \in DownCalls : d.id = c.id => d = c
          /\ down.pc = "done" => down.returned = "normal")

\* C39 witness: the last-chance lookup of an orphan-tagged instance has
\* failed, Phase 2 has then evaluated another instance and the invocation
\* has ended.
C39_Witness ==
  /\ down.pc = "done" /\ down.outcome = "ok"
  /\ FailedLookups # {}
  /\ \E d \in DownCalls : d.phase = 2 /\ d.op \in {"tag", "terminate"} /\ d.ok

\* the upstream runner of an instance, by name
RunnerOf(id) == { g \in ghRunners : g.name = id }

\* the instance is in the inventory
Managed(id) == \E x \in instances : x.id = id

\* C34: under repeated invocations whose calls succeed, an instance that
\* is past its boot time and has no matching upstream runner is
\* eventually terminated, unless a runner registers for it; and an
\* instance without upstream runner leaves the inventory only in a step of
\* Phase 1, carrying the orphan tag that Phase 2 of an earlier invocation
\* (or an earlier run) set.
C34_UnmatchedEventuallyTerminated ==
  /\ \A id \in 1..MaxCycle :
       (\E x \in instances : x.id = id /\ RunnerOf(id) = {} /\ BootTimeExceeded(x, down.now))
         ~> (~Managed(id) \/ RunnerOf(id) # {})
  /\ [][ \A x \in instances :
           (RunnerOf(x.id) = {} /\ ~(\E y \in instances' : y.id = x.id)) =>
             (x.orphan /\ down.pc = "orphans"
              /\ down.orphanRunners[down.oi].id = x.id) ]_vars

\* C34 witness: an instance that Phase 2 of an earlier invocation tagged
\* orphan, still without upstream runner, has just been terminated by
\* Phase 1.
C34_Witness ==
  \E c \in DownCalls :
    /\ c.phase = 1 /\ c.op = "terminate" /\ c.ok
    /\ c.id \in down.marked
    /\ ~Managed(c.id) /\ RunnerOf(c.id) = {}

\* the runner of the instance is registered upstream, offline and busy
OfflineBusy(id) ==
  \E g \in RunnerOf(id) : g.status = "offline" /\ g.busy

\* C35 (as stated): under repeated invocations, a managed instance whose
\* upstream runner stays registered, offline and busy is eventually
\* terminated.
C35_OfflineBusyEventuallyTerminated ==
  \A id \in 1..MaxCycle :
    (Managed(id) /\ OfflineBusy(id)) ~> ~Managed(id)

\* C35 (amended): under repeated invocations whose calls succeed, a
\* managed instance that carries the orphan tag and whose upstream runner
\* stays registered, offline and busy is eventually terminated.
C35_OrphanTaggedOfflineBusyTerminated ==
  \A id \in 1..MaxCycle :
    (\E x \in instances : x.id = id /\ x.orphan /\ OfflineBusy(id)) ~> ~Managed(id)

\* C35 witness: the last-chance check has found the runner of an
\* orphan-tagged instance offline and busy, and Phase 1 has terminated the
\* instance.
C35_Witness ==
  \E c \in DownCalls :
    /\ c.phase = 1 /\ c.op = "terminate" /\ c.ok
    /\ c.listed.runnerId # NoRunnerId
    /\ c.state # NotFound /\ c.state.status = "offline" /\ c.state.busy
    /\ ~Managed(c.id) /\ OfflineBusy(c.id)

\* the runner of the instance is registered upstream and online
Online(id) ==
  \E g \in RunnerOf(id) : g.status = "online"

\* the step is a turn of Phase 1 that examines the orphan-listed instance r
\* and whose calls succeed
ExaminedByPhase1(r) ==
  /\ down.pc = "orphans"
  /\ r = down.orphanRunners[down.oi]
  /\ down'.log # down.log
  /\ down'.log[Len(down'.log)].ok

\* C32 (as stated): Phase 1 never terminates an instance whose runner is
\* registered upstream and online when Phase 1 examines it, and clears its
\* orphan tag instead, with or without runner id tag.
C32_OnlineRunnerNeverTerminatedByPhase1 ==
  [][ \A x \in instances :
        (Online(x.id) /\ ExaminedByPhase1(x)) =>
          \E y \in instances' : y.id = x.id /\ ~y.orphan ]_vars

\* C32 (amended): Phase 1 never terminates an instance that carries the
\* runner id tag and whose runner is registered upstream and online when
\* Phase 1 examines it; when the lookup and the untag call succeed its
\* orphan tag is cleared.
C32_TaggedOnlineRunnerNeverTerminatedByPhase1 ==
  [][ \A x \in instances :
        /\ (Online(x.id) /\ x.runnerId # NoRunnerId /\ down.pc = "orphans"
              /\ x = down.orphanRunners[down.oi]) =>
             \E y \in instances' : y.id = x.id
        /\ (Online(x.id) /\ x.runnerId # NoRunnerId /\ ExaminedByPhase1(x)) =>
             \E y \in instances' : y.id = x.id /\ ~y.orphan ]_vars

\* C32 witness: Phase 2 of an earlier invocation tagged an instance with
\* runner id tag, its runner registered and came online, and Phase 1 has
\* found the runner online and cleared the orphan tag.
C32_Witness ==
  \E c \in DownCalls :
    /\ c.phase = 1 /\ c.op = "untag" /\ c.ok
    /\ c.id \in down.marked
    /\ c.listed.runnerId # NoRunnerId
    /\ c.state # NotFound /\ c.state.status = "online"
    /\ \E x \in instances : x.id = c.id /\ ~x.orphan

\* the age of the instance is below the boot-time threshold and below the
\* minimum running time at the time of the invocation
Young(x) ==
  /\ down.now - x.launchTime < config.bootTime
  /\ down.now - x.launchTime < config.minimumRunningTime

\* the instance carried the orphan tag when the invocation listed the
\* orphans on entry
OrphanOnEntry(id) ==
  \E p \in 1..Len(down.orphanRunners) : down.orphanRunners[p].id = id

\* C40: scale-down makes no terminate, de-register or orphan-tag call for
\* an instance that was not orphan-tagged on entry and is below both the
\* boot-time threshold and the minimum running time, and no step of
\* scale-down takes such an instance from the inventory, tags it orphan or
\* removes its upstream runner, whatever the upstream state, the idle
\* count and the eviction strategy, also while scale-up and pool create
\* instances.
C40_YoungInstanceLeftAlone ==
  /\ [](\A c \in DownCalls :
          (Young(c.listed) /\ ~OrphanOnEntry(c.id)) =>
            c.op \notin {"terminate", "deregister", "tag"})
  /\ [][ \A x \in instances :
           (down.pc \in {"orphans", "list", "evaluate"}
              /\ Young(x) /\ ~x.orphan /\ ~OrphanOnEntry(x.id)) =>
             /\ x \in instances'
             /\ RunnerOf(x.id) \subseteq ghRunners' ]_vars

\* C40 witness: Phase 2 has evaluated an instance that scale-up or pool
\* created (still pending) and that is below both thresholds, at idle count
\* 0, and has left it in the inventory without orphan tag.
C40_Witness ==
  \E c \in DownCalls :
    /\ c.phase = 2 /\ c.op \in {"keep-young", "booting"}
    /\ c.listed.state = "pending"
    /\ Young(c.listed) /\ ~OrphanOnEntry(c.id)
    /\ config.idleCount = 0
    /\ \E x \in instances : x.id = c.id /\ ~x.orphan

====
